---- MODULE Spec2Model ----
(***************************************************************************)
(* A model of vawk (visual AWK): the byte trie of literal separators, the  *)
(* literal splitter, the separator / index-filter / regex parsers, the     *)
(* 2-D transformer with its CSV writer, and the websocket session that     *)
(* owns the options and answers the client's requests.                     *)
(*                                                                         *)
(* Bytes are naturals.  A byte string is a sequence of bytes.  A string    *)
(* of user input is a sequence of one-character strings.                   *)
(***************************************************************************)
EXTENDS Naturals, Sequences, FiniteSets, TLC

VARIABLES
    \* ---- byte trie / literal splitter (byte_trie.rs, transformers.rs) ----
    trie,               \* the ByteTrie under construction
    inserted,           \* the byte strings passed to insert so far
    reinserted,         \* TRUE once some byte string was inserted twice
    ninserts,           \* number of insert calls so far
    data,               \* the buffer handed to split
    segments,           \* split's return value once it has run
    tpc,                \* "build" while inserting, "split" after split ran
    \* ---- session (websocket_connection.rs) ----
    stdin,              \* WebsocketConnection.stdin
    column_options,     \* WebsocketConnection.column_options
    row_options,        \* WebsocketConnection.row_options
    outbox,             \* the frames the last handled message put on ctx
    nrequests,          \* messages given to handle_message so far
    nresponses,         \* binary frames put on ctx so far
    nerrors,            \* unexpected_error frames among them
    request,            \* history: the last message given to handle_message
    before,             \* history: the options when that message arrived
    \* ---- the transformer's functions, called on their own ----
    call,               \* the last call: the function, its arguments, its result
    \* ---- the connection actor (websocket_connection.rs) ----
    now,                \* Instant::now(), in milliseconds since the session began
    last_seen_heartbeat,    \* WebsocketConnection.last_seen_heartbeat
    next_tick,          \* when the interval of started fires next
    continuation_frame, \* WebsocketConnection.continuation_frame
    stopped,            \* ctx.stop() was called
    system_stopped,     \* System::current().stop() was called
    control,            \* the last control frame put on ctx
    npings,             \* history: the pings the interval put on ctx
    parts,              \* history: the continuation items handled so far
    assembled,          \* history: the payloads send_full_continuation_frame dispatched
    starved,            \* history: CLIENT_TIMEOUT was exceeded since the last tick
    close_frame,        \* the reason of the close frame put on ctx, once one was
    \* ---- a second session, on the same input buffer ----
    twin,               \* its fields, and the frames its last message put on ctx
    \* ---- the command-running session (server/src/websocket_connection.rs) ----
    command_status,     \* WebsocketConnection.command_status
    process,            \* the child of the command: its pipes and its exit
    should_resend_csv,  \* WebsocketConnection.should_resend_csv
    responses           \* history: the responses the session put on ctx

trieVars == <<trie, inserted, reinserted, ninserts, data, segments, tpc>>
sessionVars == <<stdin, column_options, row_options, outbox, nrequests, nresponses,
                 nerrors, request, before>>
callVars == <<call>>
clockVars == <<now, last_seen_heartbeat, next_tick, stopped, system_stopped,
               control, npings, starved, close_frame>>
commandVars == <<command_status, process, should_resend_csv, responses>>
otherVars == <<twin, commandVars>>
frameVars == <<continuation_frame, parts, assembled>>
vars == <<trie, inserted, reinserted, ninserts, data, segments, tpc,
          stdin, column_options, row_options, outbox, nrequests, nresponses,
          nerrors, request, before, call,
          now, last_seen_heartbeat, next_tick, continuation_frame, stopped,
          system_stopped, control, npings, parts, assembled, starved, close_frame, twin,
          command_status, process, should_resend_csv, responses>>

(***************************************************************************)
(* Bounds of the model.                                                    *)
(***************************************************************************)
MaxInserts == 3
MaxDataLen == 3
MaxRequests == 2
MaxIndex == 3
MaxItems == 4
MaxTime == 800

(***************************************************************************)
(* The timing of the heartbeat, in milliseconds.                           *)
(***************************************************************************)
HEARTBEAT_INTERVAL == 100
CLIENT_TIMEOUT == 500

(***************************************************************************)
(* Bytes the parsers name.                                                 *)
(***************************************************************************)
LF == 10
TAB == 9
CR == 13
SP == 32

\* Option<T>: None is the empty sequence, Some(v) the sequence holding v
None == <<>>

Some(v) == <<v>>

\* no command-running session
NoCommand ==
    /\ command_status = [kind |-> "Idle"]
    /\ process = <<>>
    /\ should_resend_csv = FALSE
    /\ responses = <<>>

\* WebsocketConnection::new and an actor that was not started
NoConnection ==
    /\ NoCommand
    /\ now = 0
    /\ last_seen_heartbeat = 0
    /\ next_tick = 0
    /\ continuation_frame = None
    /\ stopped = FALSE
    /\ system_stopped = FALSE
    /\ control = "none"
    /\ npings = 0
    /\ parts = <<>>
    /\ assembled = <<>>
    /\ starved = FALSE
    /\ close_frame = None
    /\ twin = None

IsSome(o) == o # None

RECURSIVE SeqsUpTo(_, _)
SeqsUpTo(S, n) ==
    IF n = 0 THEN {<<>>}
    ELSE LET shorter == SeqsUpTo(S, n - 1)
         IN  shorter \cup {Append(s, x) : s \in shorter, x \in S}

IsPrefix(p, s) == Len(p) <= Len(s) /\ SubSeq(s, 1, Len(p)) = p

(***************************************************************************)
(* ByteTrie.  A trie is the set of the paths (non-empty byte strings) from *)
(* its root to each of its nodes; the children map of the root has the     *)
(* keys Keys(self) and the child under byte b is Child(self, b).  Two      *)
(* tries are equal as sets exactly when the derived PartialEq holds.       *)
(***************************************************************************)
new == {}

Keys(self) == {p[1] : p \in {q \in self : Len(q) = 1}}

\* the child under b mixed up with the children under the other keys
Child_of_any(self, b) == {Tail(p) : p \in {q \in self : Len(q) > 1}}

Child(self, b) == {Tail(p) : p \in {q \in self : Len(q) > 1 /\ q[1] = b}}

Under(b, child) == {<<b>>} \cup {<<b>> \o p : p \in child}

WithChild(self, b, child) ==
    {p \in self : p[1] # b} \cup Under(b, child)

is_empty(self) == Keys(self) = {}

RECURSIVE insert(_, _)
insert(self, path) ==
    IF path = <<>> THEN self
    ELSE LET head == Head(path)
         IN  IF head \in Keys(self)
             THEN WithChild(self, head, insert(Child(self, head), Tail(path)))
             ELSE WithChild(self, head, new)

RECURSIVE membership(_, _)
membership(self, path) ==
    IF path = <<>> THEN "NotIncluded"
    ELSE LET head == Head(path)
         IN  IF head \in Keys(self)
             THEN IF Len(path) = 1 /\ is_empty(Child(self, head))
                     THEN "IncludedAndTerminal"
                  ELSE IF Len(path) = 1 THEN "Included"
                  ELSE membership(Child(self, head), Tail(path))
             ELSE "NotIncluded"

\* merge whose Some arm keeps the child it has
merge_child_keeping(self, byte, other_child) ==
    IF byte \in Keys(self) THEN self
    ELSE WithChild(self, byte, other_child)

RECURSIVE merge(_, _)
\* one iteration of the loop of merge: the arm for the pair (byte, other_child)
merge_child(self, byte, other_child) ==
    IF byte \in Keys(self)
    THEN WithChild(self, byte, merge(Child(self, byte), other_child))
    ELSE WithChild(self, byte, other_child)

\* the loop of merge over the children of other that are still to come; the
\* order a HashMap hands them out in does not change the result
RECURSIVE merge_children(_, _, _)
merge_children(self, other, keys) ==
    IF keys = {} THEN self
    ELSE LET byte == CHOOSE b \in keys : TRUE
         IN  merge_children(merge_child(self, byte, Child(other, byte)),
                            other, keys \ {byte})

merge(self, other) ==
    IF is_empty(other) THEN self
    ELSE merge_children(self, other, Keys(other))

(***************************************************************************)
(* The literal splitter.  split_byte is one iteration of the loop over the *)
(* buffer, on the loop's three locals.                                     *)
(***************************************************************************)
\* one pass of the loop with the two `if !current_line.is_empty()` guards
\* taken away: a separator always ends a segment
split_byte_unguarded(separators, st, byte) ==
    IF membership(separators, Append(st.current_separator, byte)) = "NotIncluded"
    THEN [result |-> st.result,
          current_line |-> Append(st.current_line, byte),
          current_separator |-> <<>>]
    ELSE [result |-> Append(st.result, st.current_line),
          current_line |-> <<>>,
          current_separator |-> <<>>]

split_byte(separators, st, byte) ==
    LET current_separator == Append(st.current_separator, byte)
        m == membership(separators, current_separator)
    IN  IF m = "NotIncluded"
        THEN [result |-> st.result,
              current_line |-> Append(st.current_line, byte),
              current_separator |-> <<>>]
        ELSE IF m = "Included" /\ st.current_line # <<>>
        THEN [result |-> Append(st.result, st.current_line),
              current_line |-> <<>>,
              current_separator |-> current_separator]
        ELSE IF m = "Included"
        THEN [result |-> st.result,
              current_line |-> st.current_line,
              current_separator |-> current_separator]
        ELSE IF st.current_line # <<>>
        THEN [result |-> Append(st.result, st.current_line),
              current_line |-> <<>>,
              current_separator |-> <<>>]
        ELSE [result |-> st.result,
              current_line |-> st.current_line,
              current_separator |-> <<>>]

RECURSIVE split_loop(_, _, _, _)
split_loop(separators, buf, i, st) ==
    IF i > Len(buf) THEN st
    ELSE split_loop(separators, buf, i + 1, split_byte(separators, st, buf[i]))

\* split without the push of the last current_line after the loop
split_without_rest(separators, buf) ==
    split_loop(separators, buf, 1,
               [result |-> <<>>, current_line |-> <<>>,
                current_separator |-> <<>>]).result

split(separators, buf) ==
    LET st == split_loop(separators, buf, 1,
                         [result |-> <<>>, current_line |-> <<>>,
                          current_separator |-> <<>>])
    IN  IF st.current_line # <<>> THEN Append(st.result, st.current_line)
        ELSE st.result

(***************************************************************************)
(* Parsers (parsers.rs).  A parser result is [ok, value] or [ok, error];   *)
(* a nom result is [ok, rest, value].                                      *)
(***************************************************************************)
Ok(v) == [ok |-> TRUE, value |-> v]

Err(e) == [ok |-> FALSE, error |-> e]

\* the UTF-8 encoding of the characters the model's inputs use
Utf8(c) ==
    CASE c = "\\" -> <<92>>
      [] c = "n" -> <<110>>
      [] c = "t" -> <<116>>
      [] c = "r" -> <<114>>
      [] c = "s" -> <<115>>
      [] c = "a" -> <<97>>
      [] c = "b" -> <<98>>
      [] c = "c" -> <<99>>
      [] c = "x" -> <<120>>
      [] c = "," -> <<44>>
      [] c = "." -> <<46>>
      [] c = " " -> <<SP>>
      [] c = "(" -> <<40>>
      [] c = "0" -> <<48>>
      [] c = "1" -> <<49>>
      [] c = "2" -> <<50>>
      [] c = "5" -> <<53>>
      [] c = "é" -> <<195, 169>>

nomOk(rest, v) == [ok |-> TRUE, rest |-> rest, value |-> v]

nomErr(input) == [ok |-> FALSE, rest |-> input]

tag(t, input) ==
    IF IsPrefix(t, input) THEN nomOk(SubSeq(input, Len(t) + 1, Len(input)), t)
    ELSE nomErr(input)

escaped_field_separator(input) ==
    IF tag(<<"\\", "n">>, input).ok THEN nomOk(tag(<<"\\", "n">>, input).rest, LF)
    ELSE IF tag(<<"\\", "t">>, input).ok THEN nomOk(tag(<<"\\", "t">>, input).rest, TAB)
    ELSE IF tag(<<"\\", "r">>, input).ok THEN nomOk(tag(<<"\\", "r">>, input).rest, CR)
    ELSE IF tag(<<"\\", "s">>, input).ok THEN nomOk(tag(<<"\\", "s">>, input).rest, SP)
    ELSE nomErr(input)

\* many0(alt((escaped_field_separator, take(1)))): the bytes of the characters
RECURSIVE field_separator_chars(_, _)
\* e is what escaped_field_separator made of the input
field_separator_chars_of(input, combined, e) ==
    IF e.ok THEN field_separator_chars(e.rest, Append(combined, e.value))
    ELSE IF input # <<>>
    THEN field_separator_chars(Tail(input), combined \o Utf8(Head(input)))
    ELSE nomOk(input, combined)

field_separator_chars(input, combined) ==
    field_separator_chars_of(input, combined, escaped_field_separator(input))

\* the map of field_separator with a trie of its own for every string
field_separator_of_fresh(byte_trie, r) == nomOk(r.rest, insert(new, r.value))

\* the map of field_separator: the parsed bytes go into the trie
field_separator_of(byte_trie, r) == nomOk(r.rest, insert(byte_trie, r.value))

field_separator(input, byte_trie) ==
    field_separator_of(byte_trie, field_separator_chars(input, <<>>))

RECURSIVE parse_field_separators_from(_, _, _)
\* the body of the loop of parse_field_separators, r being field_separator's result
parse_field_separators_of(string_representations, i, r) ==
    IF ~r.ok THEN Err([InvalidFieldSeparatorError |-> r.rest])
    ELSE IF is_empty(r.value) /\ r.rest # <<>>
    THEN Err([InvalidFieldSeparatorError |-> r.rest])
    ELSE parse_field_separators_from(string_representations, i + 1, r.value)

parse_field_separators_from(string_representations, i, separators) ==
    IF i > Len(string_representations) THEN Ok(separators)
    ELSE parse_field_separators_of(
             string_representations, i,
             field_separator(string_representations[i], separators))

parse_field_separators(string_representations) ==
    parse_field_separators_from(string_representations, 1, new)

Digits == {"0", "1", "2", "5"}

DigitValue(c) ==
    CASE c = "0" -> 0 [] c = "1" -> 1 [] c = "2" -> 2 [] c = "5" -> 5

RECURSIVE TakeWhile(_, _)
TakeWhile(S, input) ==
    IF input # <<>> /\ Head(input) \in S
    THEN <<Head(input)>> \o TakeWhile(S, Tail(input))
    ELSE <<>>

RECURSIVE from_str(_, _)
from_str(ds, acc) ==
    IF ds = <<>> THEN acc ELSE from_str(Tail(ds), acc * 10 + DigitValue(Head(ds)))

\* digit1 mapped through usize::from_str
index(input) ==
    LET ds == TakeWhile(Digits, input)
    IN  IF ds = <<>> THEN nomErr(input)
        ELSE nomOk(SubSeq(input, Len(ds) + 1, Len(input)), from_str(ds, 0))

space0(input) ==
    LET ws == TakeWhile({" ", "\t"}, input)
    IN  nomOk(SubSeq(input, Len(ws) + 1, Len(input)), ws)

\* a parser applied to what the parser before it left, as tuple((..)) chains them
index_after(r) == IF r.ok THEN index(r.rest) ELSE r

dots_after(r) == IF r.ok THEN tag(<<".", ".">>, r.rest) ELSE r

bounded_of(input, lo, hi) ==
    IF hi.ok
    THEN nomOk(hi.rest, [kind |-> "Bounded", lower |-> lo.value, upper |-> hi.value])
    ELSE nomErr(input)

bounded(input) ==
    bounded_of(input, index(input), index_after(dots_after(index(input))))

lower_bounded_of(input, lo, dd) ==
    IF dd.ok THEN nomOk(dd.rest, [kind |-> "LowerBounded", lower |-> lo.value])
    ELSE nomErr(input)

lower_bounded(input) ==
    lower_bounded_of(input, index(input), dots_after(index(input)))

upper_bounded_of(input, hi) ==
    IF hi.ok THEN nomOk(hi.rest, [kind |-> "UpperBounded", upper |-> hi.value])
    ELSE nomErr(input)

upper_bounded(input) ==
    upper_bounded_of(input, index_after(tag(<<".", ".">>, input)))

exact_of(input, i) ==
    IF i.ok THEN nomOk(i.rest, [kind |-> "Exact", j |-> i.value]) ELSE nomErr(input)

exact(input) == exact_of(input, index(input))

\* alt((a, b)): the first parser that succeeds
alt(a, b) == IF a.ok THEN a ELSE b

\* index_filter with exact tried first
index_filter_exact_first(input) ==
    alt(exact(input),
        alt(bounded(input),
            alt(lower_bounded(input), upper_bounded(input))))

index_filter(input) ==
    alt(bounded(input),
        alt(lower_bounded(input),
            alt(upper_bounded(input), exact(input))))

index_filter_separator_of(input, comma) ==
    IF comma.ok THEN nomOk(space0(comma.rest).rest, <<>>) ELSE nomErr(input)

index_filter_separator(input) ==
    index_filter_separator_of(input, tag(<<",">>, space0(input).rest))

index_filter_separator_after(r) ==
    IF r.ok THEN index_filter_separator(r.rest) ELSE r

index_filter_item_of(r, sep) ==
    IF sep.ok THEN nomOk(sep.rest, r.value) ELSE r

\* alt((tuple((index_filter, index_filter_separator)), index_filter))
index_filter_item(input) ==
    index_filter_item_of(index_filter(input),
                         index_filter_separator_after(index_filter(input)))

\* many0 of index_filter_item
RECURSIVE index_filter_items(_, _)
index_filter_items_of(input, rules, r) ==
    IF r.ok THEN index_filter_items(r.rest, Append(rules, r.value))
    ELSE nomOk(input, rules)

index_filter_items(input, rules) ==
    index_filter_items_of(input, rules, index_filter_item(input))

index_filters_of(items) == nomOk(space0(items.rest).rest, items.value)

index_filters(input) ==
    index_filters_of(index_filter_items(space0(input).rest, <<>>))

parse_index_filters_of(r) ==
    IF ~r.ok THEN Err([InvalidIndexFiltersError |-> r.rest])
    ELSE IF r.value = <<>> /\ r.rest # <<>>
    THEN Err([InvalidIndexFiltersError |-> r.rest])
    ELSE Ok(r.value)

parse_index_filters(string_representation) ==
    parse_index_filters_of(index_filters(string_representation))

\* is_match with the upper bound of Bounded inside the range
is_match_inclusive(rule, i) ==
    CASE rule.kind = "Bounded" -> i >= rule.lower /\ i <= rule.upper
      [] rule.kind = "LowerBounded" -> i >= rule.lower
      [] rule.kind = "UpperBounded" -> i < rule.upper
      [] rule.kind = "Exact" -> i = rule.j

is_match(rule, i) ==
    CASE rule.kind = "Bounded" -> i >= rule.lower /\ i < rule.upper
      [] rule.kind = "LowerBounded" -> i >= rule.lower
      [] rule.kind = "UpperBounded" -> i < rule.upper
      [] rule.kind = "Exact" -> i = rule.j

(***************************************************************************)
(* The regex library, for the patterns the model's inputs use: a pattern   *)
(* of plain characters matches its own bytes wherever they occur, and a    *)
(* pattern that opens a group it never closes does not compile.            *)
(***************************************************************************)
RECURSIVE PatternBytes(_)
PatternBytes(pattern) ==
    IF pattern = <<>> THEN <<>> ELSE Utf8(Head(pattern)) \o PatternBytes(Tail(pattern))

parse_regex(string_representation) ==
    IF \E i \in 1..Len(string_representation) : string_representation[i] = "("
    THEN Err([InvalidRegexError |-> <<"unclosed group">>])
    ELSE Ok([literal |-> PatternBytes(string_representation)])

\* the start of the leftmost match at or after position from, 0 when none
RECURSIVE regex_find(_, _, _)
regex_find(regex, haystack, from) ==
    IF from + Len(regex.literal) - 1 > Len(haystack) THEN 0
    ELSE IF SubSeq(haystack, from, from + Len(regex.literal) - 1) = regex.literal
    THEN from
    ELSE regex_find(regex, haystack, from + 1)

regex_is_match(regex, haystack) == regex_find(regex, haystack, 1) # 0

\* Regex::split: the text between the matches, and the text after the last
RECURSIVE regex_split(_, _, _)
regex_split(regex, text, last) ==
    LET m == regex_find(regex, text, last)
    IN  IF m = 0 THEN <<SubSeq(text, last, Len(text))>>
        ELSE <<SubSeq(text, last, m - 1)>>
             \o regex_split(regex, text, m + Len(regex.literal))

(***************************************************************************)
(* The transformer (transformers.rs).  Options is a record of five         *)
(* Option fields, each None or Some(v).                                    *)
(***************************************************************************)
default ==
    [separators |-> None, regex_separator |-> None, regex_filter |-> None,
     index_filters |-> None, filters_combination |-> None]

RECURSIVE regex_split_each(_, _)
regex_split_each(regex_separator, fields) ==
    IF fields = <<>> THEN <<>>
    ELSE regex_split(regex_separator, Head(fields), 1)
         \o regex_split_each(regex_separator, Tail(fields))

\* the second step of split_all, on the result of the first
split_all_of(options, result) ==
    IF options.regex_separator = None THEN result
    ELSE regex_split_each(options.regex_separator[1], result)

\* split_all that makes no segment of an empty buffer
split_all_skipping_empty(options, buf) ==
    split_all_of(options,
                 IF options.separators = None
                 THEN (IF buf = <<>> THEN <<>> ELSE <<buf>>)
                 ELSE split(options.separators[1], buf))

split_all(options, buf) ==
    split_all_of(options, IF options.separators = None THEN <<buf>>
                          ELSE split(options.separators[1], buf))

any_match(rules, i) == \E k \in 1..Len(rules) : is_match(rules[k], i)

\* should_keep without the arm of Combination::Or: the two filters always
\* have to agree
should_keep_both(options, field, i) ==
    (options.index_filters = None \/ any_match(options.index_filters[1], i))
    /\ (options.regex_filter = None
        \/ regex_is_match(options.regex_filter[1], field))

\* the match of keep_matches on the segment at 0-based position i
should_keep(options, field, i) ==
    IF options.index_filters = None /\ options.regex_filter = None THEN TRUE
    ELSE IF options.regex_filter = None
    THEN any_match(options.index_filters[1], i)
    ELSE IF options.index_filters = None
    THEN regex_is_match(options.regex_filter[1], field)
    ELSE IF options.filters_combination = Some("Or")
    THEN any_match(options.index_filters[1], i)
         \/ regex_is_match(options.regex_filter[1], field)
    ELSE any_match(options.index_filters[1], i)
         /\ regex_is_match(options.regex_filter[1], field)

RECURSIVE keep_matches_from(_, _, _)
keep_matches_from(options, fields, i) ==
    IF i >= Len(fields) THEN <<>>
    ELSE (IF should_keep(options, fields[i + 1], i) THEN <<fields[i + 1]>> ELSE <<>>)
         \o keep_matches_from(options, fields, i + 1)

keep_matches(options, fields) == keep_matches_from(options, fields, 0)

split_into_records(options, buf) == keep_matches(options, split_all(options, buf))

\* the csv writer built with has_headers(false): comma, double quote, quoting
\* when necessary, records ended by a line feed
RECURSIVE csv_quoted(_)
csv_quoted(cell) ==
    IF cell = <<>> THEN <<>>
    ELSE (IF Head(cell) = 34 THEN <<34, 34>> ELSE <<Head(cell)>>)
         \o csv_quoted(Tail(cell))

csv_field(cell) ==
    IF \E k \in 1..Len(cell) : cell[k] \in {44, 34, CR, LF}
    THEN <<34>> \o csv_quoted(cell) \o <<34>>
    ELSE cell

RECURSIVE csv_fields(_)
csv_fields(row) ==
    IF row = <<>> THEN <<>>
    ELSE IF Len(row) = 1 THEN csv_field(row[1])
    ELSE csv_field(Head(row)) \o <<44>> \o csv_fields(Tail(row))

write_record(row) ==
    (IF csv_fields(row) = <<>> THEN <<34, 34>> ELSE csv_fields(row)) \o <<LF>>

RECURSIVE longest(_)
longest(rows) ==
    IF rows = <<>> THEN 0
    ELSE LET rest == longest(Tail(rows))
         IN  IF Len(Head(rows)) > rest THEN Len(Head(rows)) ELSE rest

\* pad with the empty cells put in front of the row
pad_in_front(row, n) == [k \in 1..(n - Len(row)) |-> <<>>] \o row

pad(row, n) == row \o [k \in 1..(n - Len(row)) |-> <<>>]

\* the inner loop of transform_output: every outer segment split again
split_each(column_opts, outer) ==
    [r \in 1..Len(outer) |-> split_into_records(column_opts, outer[r])]

pad_all(rows, longest_number_of_cells) ==
    [r \in 1..Len(rows) |-> pad(rows[r], longest_number_of_cells)]

pad_to_longest(rows) == pad_all(rows, longest(rows))

\* the table transform_output hands to the writer, row by row
table(column_opts, row_opts, buf) ==
    pad_to_longest(split_each(column_opts, split_into_records(row_opts, buf)))

RECURSIVE write_records(_)
write_records(rows) ==
    IF rows = <<>> THEN <<>> ELSE write_record(Head(rows)) \o write_records(Tail(rows))

transform_output(column_opts, row_opts, buf) ==
    Ok(write_records(table(column_opts, row_opts, buf)))

RECURSIVE keep_index_matches_from(_, _, _)
keep_index_matches_from(rules, fields, i) ==
    IF i >= Len(fields) THEN <<>>
    ELSE (IF any_match(rules, i) THEN <<fields[i + 1]>> ELSE <<>>)
         \o keep_index_matches_from(rules, fields, i + 1)

\* keep_index_matches with its loop started at 1
keep_index_matches_after_first(rules, fields) ==
    keep_index_matches_from(rules, fields, 1)

keep_index_matches(rules, fields) == keep_index_matches_from(rules, fields, 0)

RECURSIVE keep_regex_matches(_, _)
keep_regex_matches(regex, fields) ==
    IF fields = <<>> THEN <<>>
    ELSE (IF regex_is_match(regex, Head(fields)) THEN <<Head(fields)>> ELSE <<>>)
         \o keep_regex_matches(regex, Tail(fields))

(***************************************************************************)
(* The transformer of the server crate (server/src/transformers.rs).  Its  *)
(* Options has no regex_separator and no filters_combination; its split is *)
(* the split above, line for line.                                         *)
(***************************************************************************)
server_default == [separators |-> None, regex_filter |-> None, index_filters |-> None]

server_keep_index(options, result) ==
    IF options.index_filters = None THEN result
    ELSE keep_index_matches(options.index_filters[1], result)

server_keep_regex(options, result) ==
    IF options.regex_filter = None THEN result
    ELSE keep_regex_matches(options.regex_filter[1], result)

server_split_into_records(options, buf) ==
    server_keep_regex(options,
        server_keep_index(options,
            IF options.separators = None THEN <<buf>>
            ELSE split(options.separators[1], buf)))

\* the inner loop of the server's transform_output
server_split_each(row_opts, outer) ==
    [r \in 1..Len(outer) |-> server_split_into_records(row_opts, outer[r])]

server_table(column_opts, row_opts, buf) ==
    pad_to_longest(server_split_each(row_opts,
                                     server_split_into_records(column_opts, buf)))

server_transform_output(column_opts, row_opts, buf) ==
    Ok(write_records(server_table(column_opts, row_opts, buf)))

(***************************************************************************)
(* The inputs of the trie / splitter specification.                        *)
(***************************************************************************)
SepBytes == {CR, LF}

DataBytes == {CR, LF, 97}

\* the separators callers insert: one or two bytes long
SepPaths == SeqsUpTo(SepBytes, 2) \ {<<>>}

\* "a\r\nb\rc\r\nd"
ScenarioE == <<97, CR, LF, 98, CR, 99, CR, LF, 100>>

\* "hi\tthere\tthis\ncould\tbe\tcsv" shortened to "h\tt\nc\tb"
ScenarioLines == <<104, TAB, 116, LF, 99, TAB, 98>>

DataSet == SeqsUpTo(DataBytes, MaxDataLen) \cup {ScenarioE, ScenarioLines}

SessionUnused ==
    /\ stdin = <<>>
    /\ column_options = default
    /\ row_options = default
    /\ outbox = <<>>
    /\ nrequests = 0
    /\ nresponses = 0
    /\ nerrors = 0
    /\ request = <<>>
    /\ before = <<>>
    /\ call = [op |-> "none"]
    /\ NoConnection

InitTrie ==
    /\ SessionUnused
    /\ trie = new
    /\ inserted = {}
    /\ reinserted = FALSE
    /\ ninserts = 0
    /\ data \in DataSet
    /\ segments = <<>>
    /\ tpc = "build"

\* separators.insert(path), as parse_field_separators and the tests call it
TrieInsert(path) ==
    /\ tpc = "build"
    /\ ninserts < MaxInserts
    /\ trie' = insert(trie, path)
    /\ inserted' = inserted \cup {path}
    /\ reinserted' = (reinserted \/ path \in inserted)
    /\ ninserts' = ninserts + 1
    /\ UNCHANGED <<data, segments, tpc>>
    /\ UNCHANGED sessionVars
    /\ UNCHANGED callVars
    /\ UNCHANGED <<clockVars, frameVars, otherVars>>

\* split(&trie, &data)
TrieSplit ==
    /\ tpc = "build"
    /\ segments' = split(trie, data)
    /\ tpc' = "split"
    /\ UNCHANGED <<trie, inserted, reinserted, ninserts, data>>
    /\ UNCHANGED sessionVars
    /\ UNCHANGED callVars
    /\ UNCHANGED <<clockVars, frameVars, otherVars>>

NextTrie ==
    \/ \E path \in SepPaths : TrieInsert(path)
    \/ TrieSplit

SpecTrie == InitTrie /\ [][NextTrie]_vars

(***************************************************************************)
(* Claims about the trie and the literal splitter.                         *)
(***************************************************************************)
RECURSIVE Flatten(_)
Flatten(ss) == IF ss = <<>> THEN <<>> ELSE Head(ss) \o Flatten(Tail(ss))

Drop(s, n) == SubSeq(s, n + 1, Len(s))

RECURSIVE WithoutCRLF(_)
WithoutCRLF(buf) ==
    IF buf = <<>> THEN <<>>
    ELSE IF IsPrefix(<<CR, LF>>, buf) THEN WithoutCRLF(Drop(buf, 2))
    ELSE <<Head(buf)>> \o WithoutCRLF(Tail(buf))

\* the stored separators: the paths that end in a node without children
Leaves(self) == {p \in self : ~\E q \in self : q # p /\ IsPrefix(p, q)}

\* buf is segs[1], segs[2], ... in order, with one or more separators of
\* seps between two segments and any number before the first and after the last
RECURSIVE Interleaves(_, _, _, _)
Interleaves(segs, buf, seps, needSep) ==
    \/ segs = <<>> /\ buf = <<>>
    \/ \E s \in seps :
          IsPrefix(s, buf) /\ Interleaves(segs, Drop(buf, Len(s)), seps, FALSE)
    \/ /\ ~needSep
       /\ segs # <<>>
       /\ IsPrefix(Head(segs), buf)
       /\ Interleaves(Tail(segs), Drop(buf, Len(Head(segs))), seps, TRUE)

\* C1: with a trie into which only the separator CR LF was inserted, split
\* keeps every CR that is not followed by LF inside a segment (the segments
\* put together are the buffer without its CR LF pairs), and splitting
\* "a\r\nb\rc\r\nd" returns exactly "a", "b\rc", "d".
C1_GreedyMultiByteSeparator ==
    (tpc = "split" /\ inserted = {<<CR, LF>>})
        => /\ Flatten(segments) = WithoutCRLF(data)
           /\ data = ScenarioE
                => segments = << <<97>>, <<98, CR, 99>>, <<100>> >>

\* C2: when every byte string of a set S was inserted once, membership(s) of
\* each s in S is IncludedAndTerminal if S holds no strict extension of s and
\* Included otherwise.
C2_MembershipOfInserted ==
    ~reinserted
        => \A s \in inserted :
              membership(trie, s) =
                  IF \E e \in inserted : e # s /\ IsPrefix(s, e)
                  THEN "Included" ELSE "IncludedAndTerminal"

\* C3: the literal split loses no data: the returned segments, interleaved
\* with separators stored in the trie, reproduce the buffer.
C3_SplitLosesNoData ==
    tpc = "split" => Interleaves(segments, data, Leaves(trie), FALSE)

\* the trie holds separators of one byte only
SingleByteOnly(self) == \A p \in self : Len(p) = 1

\* the longest prefix of buf without a byte of S
RECURSIVE RunAtHead(_, _)
RunAtHead(buf, S) ==
    IF buf = <<>> \/ Head(buf) \in S THEN <<>>
    ELSE <<Head(buf)>> \o RunAtHead(Tail(buf), S)

\* the maximal non-empty runs of bytes of buf that are not in S, in order
RECURSIVE Runs(_, _)
Runs(buf, S) ==
    IF buf = <<>> THEN <<>>
    ELSE IF Head(buf) \in S THEN Runs(Tail(buf), S)
    ELSE <<RunAtHead(buf, S)>> \o Runs(Drop(buf, Len(RunAtHead(buf, S))), S)

\* C15: for a trie holding only single-byte separators, split returns
\* exactly the maximal non-empty runs of non-separator bytes of the buffer,
\* in input order.
C15_SingleByteSplitGivesRuns ==
    (tpc = "split" /\ SingleByteOnly(trie)) => segments = Runs(data, Keys(trie))

\* "h\tt\nc\tb" split on the newline gives the two lines
C15_Witness ==
    /\ tpc = "split"
    /\ trie = {<<LF>>}
    /\ data = ScenarioLines
    /\ segments = << <<104, TAB, 116>>, <<99, TAB, 98>> >>

\* C16: the literal splitter never emits an empty segment, for any trie and
\* any buffer: leading, trailing and consecutive separators give none.
C16_NoEmptySegment ==
    tpc = "split" => \A k \in 1..Len(segments) : segments[k] # <<>>

\* a buffer that starts with a separator and has two in a row
C16_Witness ==
    /\ tpc = "split"
    /\ trie = {<<LF>>}
    /\ data = <<LF, LF, 97>>
    /\ segments = << <<97>> >>

(***************************************************************************)
(* The session (websocket_connection.rs).  self is the WebsocketConnection *)
(* as a record of its fields; a request is the FromClient message its      *)
(* payload decodes to, [decoded |-> FALSE] when the payload does not       *)
(* decode.  A frame is the FromServer message a binary frame carries.      *)
(***************************************************************************)
combination_of(combination) ==
    IF combination = "and" THEN Some("And")
    ELSE IF combination = "or" THEN Some("Or")
    ELSE None

\* Display of InitializeError: the sentence naming the sub-field, then the cause
InitializeErrorText(error) ==
    LET variant == CHOOSE v \in DOMAIN error : TRUE
        text == CASE variant = "InvalidRowFieldSeparatorError" -> "A row separator is invalid:"
                  [] variant = "InvalidRowIndexFiltersError" -> "The row index filters are invalid:"
                  [] variant = "InvalidRowRegexFilterError" -> "The row regex filter is invalid:"
                  [] variant = "InvalidRowRegexSeparatorError" -> "The row regex separator is invalid:"
                  [] variant = "InvalidColumnFieldSeparatorError" -> "A column separator is invalid:"
                  [] variant = "InvalidColumnIndexFiltersError" -> "The column index filters are invalid:"
                  [] variant = "InvalidColumnRegexFilterError" -> "The column regex filter is invalid:"
                  [] variant = "InvalidColumnRegexSeparatorError" -> "The column regex separator is invalid:"
    IN  <<text, error[variant]>>

MessageParseErrorText ==
    <<"An error occurred while parsing a message from the client:">>

EmptyMessageErrorText == <<"A message was expected but was not present.">>

\* the frame send_error puts on ctx
send_error(error) == <<[inner |-> "unexpected_error", description |-> error]>>

\* send_csvs without its ctx.binary call: the response is encoded and dropped
send_csvs_unsent(transformed) ==
    IF transformed.ok THEN Ok(<<>>)
    ELSE Err(<<"An error occurred while transforming command output:">>)

\* what send_csvs does with the transformer's result: the frames it puts on
\* ctx, or its error
send_csvs_of(transformed) ==
    IF transformed.ok
    THEN Ok(<<[inner |-> "output", output |-> transformed.value]>>)
    ELSE Err(<<"An error occurred while transforming command output:">>)

send_csvs(self) ==
    send_csvs_of(transform_output(self.column_options, self.row_options, self.stdin))

\* initialize, one operator per statement.  st is [self, result]: the session so
\* far and Ok, or the error a `?` has returned with, after which nothing runs.

initialize_row_separators(st, initial_values) ==
    IF ~st.result.ok THEN st
    ELSE LET r == parse_field_separators(initial_values.row_separators)
         IN  IF r.ok
             THEN [st EXCEPT !.self.row_options.separators = Some(r.value)]
             ELSE [st EXCEPT !.result = Err([InvalidRowFieldSeparatorError |-> r.error])]

initialize_row_regex_separator(st, initial_values) ==
    IF ~st.result.ok \/ initial_values.row_regex_separator = <<>> THEN st
    ELSE LET r == parse_regex(initial_values.row_regex_separator)
         IN  IF r.ok
             THEN [st EXCEPT !.self.row_options.regex_separator = Some(r.value)]
             ELSE [st EXCEPT !.result = Err([InvalidRowRegexSeparatorError |-> r.error])]

initialize_row_index_filters(st, initial_values) ==
    IF ~st.result.ok \/ initial_values.row_index_filters = <<>> THEN st
    ELSE LET r == parse_index_filters(initial_values.row_index_filters)
         IN  IF r.ok
             THEN [st EXCEPT !.self.row_options.index_filters = Some(r.value)]
             ELSE [st EXCEPT !.result = Err([InvalidRowIndexFiltersError |-> r.error])]

initialize_row_regex_filter(st, initial_values) ==
    IF ~st.result.ok \/ initial_values.row_regex_filter = <<>> THEN st
    ELSE LET r == parse_regex(initial_values.row_regex_filter)
         IN  IF r.ok
             THEN [st EXCEPT !.self.row_options.regex_filter = Some(r.value)]
             ELSE [st EXCEPT !.result = Err([InvalidRowRegexFilterError |-> r.error])]

initialize_row_filter_combination(st, initial_values) ==
    IF ~st.result.ok THEN st
    ELSE [st EXCEPT !.self.row_options.filters_combination =
                        combination_of(initial_values.row_filter_combination)]

initialize_column_separators(st, initial_values) ==
    IF ~st.result.ok THEN st
    ELSE LET r == parse_field_separators(initial_values.column_separators)
         IN  IF r.ok
             THEN [st EXCEPT !.self.column_options.separators = Some(r.value)]
             ELSE [st EXCEPT !.result = Err([InvalidColumnFieldSeparatorError |-> r.error])]

initialize_column_regex_separator(st, initial_values) ==
    IF ~st.result.ok \/ initial_values.column_regex_separator = <<>> THEN st
    ELSE LET r == parse_regex(initial_values.column_regex_separator)
         IN  IF r.ok
             THEN [st EXCEPT !.self.column_options.regex_separator = Some(r.value)]
             ELSE [st EXCEPT !.result = Err([InvalidColumnRegexSeparatorError |-> r.error])]

initialize_column_index_filters(st, initial_values) ==
    IF ~st.result.ok \/ initial_values.column_index_filters = <<>> THEN st
    ELSE LET r == parse_index_filters(initial_values.column_index_filters)
         IN  IF r.ok
             THEN [st EXCEPT !.self.column_options.index_filters = Some(r.value)]
             ELSE [st EXCEPT !.result = Err([InvalidColumnIndexFiltersError |-> r.error])]

initialize_column_regex_filter(st, initial_values) ==
    IF ~st.result.ok \/ initial_values.column_regex_filter = <<>> THEN st
    ELSE LET r == parse_regex(initial_values.column_regex_filter)
         IN  IF r.ok
             THEN [st EXCEPT !.self.column_options.regex_filter = Some(r.value)]
             ELSE [st EXCEPT !.result = Err([InvalidColumnRegexFilterError |-> r.error])]

initialize_column_filter_combination(st, initial_values) ==
    IF ~st.result.ok THEN st
    ELSE [st EXCEPT !.self.column_options.filters_combination =
                        combination_of(initial_values.column_filter_combination)]

initialize(self, initial_values) ==
    initialize_column_filter_combination(
    initialize_column_regex_filter(
    initialize_column_index_filters(
    initialize_column_regex_separator(
    initialize_column_separators(
    initialize_row_filter_combination(
    initialize_row_regex_filter(
    initialize_row_index_filters(
    initialize_row_regex_separator(
    initialize_row_separators(
        [self |-> self, result |-> Ok(<<>>)],
        initial_values),
        initial_values),
        initial_values),
        initial_values),
        initial_values),
        initial_values),
        initial_values),
        initial_values),
        initial_values),
        initial_values)

set_column_index_filters(self, msg) ==
    IF msg.filters = <<>>
    THEN [self |-> [self EXCEPT !.column_options.index_filters = None],
          result |-> Ok(<<>>)]
    ELSE LET r == parse_index_filters(msg.filters)
         IN  IF r.ok
             THEN [self |-> [self EXCEPT !.column_options.index_filters = Some(r.value)],
                   result |-> Ok(<<>>)]
             ELSE [self |-> [self EXCEPT !.column_options.index_filters = None],
                   result |-> Err(r.error)]

set_column_regex_filter(self, msg) ==
    IF msg.filter = <<>>
    THEN [self |-> [self EXCEPT !.column_options.regex_filter = None],
          result |-> Ok(<<>>)]
    ELSE LET r == parse_regex(msg.filter)
         IN  IF r.ok
             THEN [self |-> [self EXCEPT !.column_options.regex_filter = Some(r.value)],
                   result |-> Ok(<<>>)]
             ELSE [self |-> [self EXCEPT !.column_options.regex_filter = None],
                   result |-> Err(r.error)]

set_column_filter_combination(self, msg) ==
    [self EXCEPT !.column_options.filters_combination = combination_of(msg.combination)]

set_column_separators(self, msg) ==
    LET r == parse_field_separators(msg.separators)
    IN  IF r.ok
        THEN [self |-> [self EXCEPT !.column_options.separators = Some(r.value)],
              result |-> Ok(<<>>)]
        ELSE [self |-> [self EXCEPT !.column_options.separators = None],
              result |-> Err(r.error)]

set_column_regex_separator(self, msg) ==
    IF msg.separator = <<>>
    THEN [self |-> [self EXCEPT !.column_options.regex_separator = None],
          result |-> Ok(<<>>)]
    ELSE LET r == parse_regex(msg.separator)
         IN  IF r.ok
             THEN [self |-> [self EXCEPT !.column_options.regex_separator = Some(r.value)],
                   result |-> Ok(<<>>)]
             ELSE [self |-> [self EXCEPT !.column_options.regex_separator = None],
                   result |-> Err(r.error)]

\* set_row_index_filters without its test for the empty string
set_row_index_filters_unguarded(self, msg) ==
    LET r == parse_index_filters(msg.filters)
    IN  IF r.ok
        THEN [self |-> [self EXCEPT !.row_options.index_filters = Some(r.value)],
              result |-> Ok(<<>>)]
        ELSE [self |-> [self EXCEPT !.row_options.index_filters = None],
              result |-> Err(r.error)]

set_row_index_filters(self, msg) ==
    IF msg.filters = <<>>
    THEN [self |-> [self EXCEPT !.row_options.index_filters = None],
          result |-> Ok(<<>>)]
    ELSE LET r == parse_index_filters(msg.filters)
         IN  IF r.ok
             THEN [self |-> [self EXCEPT !.row_options.index_filters = Some(r.value)],
                   result |-> Ok(<<>>)]
             ELSE [self |-> [self EXCEPT !.row_options.index_filters = None],
                   result |-> Err(r.error)]

\* set_row_regex_filter without the assignment of None in its Err arm
set_row_regex_filter_keeps(self, msg) ==
    IF msg.filter = <<>>
    THEN [self |-> [self EXCEPT !.row_options.regex_filter = None],
          result |-> Ok(<<>>)]
    ELSE LET r == parse_regex(msg.filter)
         IN  IF r.ok
             THEN [self |-> [self EXCEPT !.row_options.regex_filter = Some(r.value)],
                   result |-> Ok(<<>>)]
             ELSE [self |-> self, result |-> Err(r.error)]

set_row_regex_filter(self, msg) ==
    IF msg.filter = <<>>
    THEN [self |-> [self EXCEPT !.row_options.regex_filter = None],
          result |-> Ok(<<>>)]
    ELSE LET r == parse_regex(msg.filter)
         IN  IF r.ok
             THEN [self |-> [self EXCEPT !.row_options.regex_filter = Some(r.value)],
                   result |-> Ok(<<>>)]
             ELSE [self |-> [self EXCEPT !.row_options.regex_filter = None],
                   result |-> Err(r.error)]

\* set_row_filter_combination assigning to column_options
set_row_filter_combination_column(self, msg) ==
    [self EXCEPT !.column_options.filters_combination = combination_of(msg.combination)]

set_row_filter_combination(self, msg) ==
    [self EXCEPT !.row_options.filters_combination = combination_of(msg.combination)]

set_row_separators(self, msg) ==
    LET r == parse_field_separators(msg.separators)
    IN  IF r.ok
        THEN [self |-> [self EXCEPT !.row_options.separators = Some(r.value)],
              result |-> Ok(<<>>)]
        ELSE [self |-> [self EXCEPT !.row_options.separators = None],
              result |-> Err(r.error)]

set_row_regex_separator(self, msg) ==
    IF msg.separator = <<>>
    THEN [self |-> [self EXCEPT !.row_options.regex_separator = None],
          result |-> Ok(<<>>)]
    ELSE LET r == parse_regex(msg.separator)
         IN  IF r.ok
             THEN [self |-> [self EXCEPT !.row_options.regex_separator = Some(r.value)],
                   result |-> Ok(<<>>)]
             ELSE [self |-> [self EXCEPT !.row_options.regex_separator = None],
                   result |-> Err(r.error)]

\* reply without its Err / Ok match: the error is sent and the CSV as well
reply_and_recompute(r, sent) ==
    [self |-> r.self,
     frames |-> (IF ~r.result.ok THEN send_error(r.result.error) ELSE <<>>)
                \o (IF sent.ok THEN sent.value ELSE send_error(sent.error))]

\* the match every arm of handle_message ends with: the error of the update
\* is sent, or else what send_csvs (sent) made is
reply(r, sent) ==
    IF ~r.result.ok THEN [self |-> r.self, frames |-> send_error(r.result.error)]
    ELSE IF sent.ok THEN [self |-> r.self, frames |-> sent.value]
    ELSE [self |-> r.self, frames |-> send_error(sent.error)]

\* the arm of Initialize wraps the error in its own sentence
reply_initialize(r) ==
    IF r.result.ok THEN r
    ELSE [r EXCEPT !.result = Err(InitializeErrorText(r.result.error))]

\* the setters of the two combinations return nothing and cannot fail
reply_always(self) == [self |-> self, result |-> Ok(<<>>)]

\* the update each arm of handle_message makes before it answers
update(self, message) ==
    CASE message.inner = "initialize" ->
            reply_initialize(initialize(self, message))
      [] message.inner = "set_column_index_filters" ->
            set_column_index_filters(self, message)
      [] message.inner = "set_column_regex_filter" ->
            set_column_regex_filter(self, message)
      [] message.inner = "set_column_filter_combination" ->
            reply_always(set_column_filter_combination(self, message))
      [] message.inner = "set_column_separators" ->
            set_column_separators(self, message)
      [] message.inner = "set_column_regex_separator" ->
            set_column_regex_separator(self, message)
      [] message.inner = "set_row_index_filters" ->
            set_row_index_filters(self, message)
      [] message.inner = "set_row_regex_filter" ->
            set_row_regex_filter(self, message)
      [] message.inner = "set_row_filter_combination" ->
            reply_always(set_row_filter_combination(self, message))
      [] message.inner = "set_row_separators" ->
            set_row_separators(self, message)
      [] message.inner = "set_row_regex_separator" ->
            set_row_regex_separator(self, message)

updated(r) == reply(r, send_csvs(r.self))

\* handle_message whose None arm sends nothing
handle_message_silent_on_empty(self, message) ==
    IF ~message.decoded
    THEN [self |-> self, frames |-> send_error(MessageParseErrorText)]
    ELSE IF message.inner = "none"
    THEN [self |-> self, frames |-> <<>>]
    ELSE updated(update(self, message))

handle_message(self, message) ==
    IF ~message.decoded
    THEN [self |-> self, frames |-> send_error(MessageParseErrorText)]
    ELSE IF message.inner = "none"
    THEN [self |-> self, frames |-> send_error(EmptyMessageErrorText)]
    ELSE updated(update(self, message))

(***************************************************************************)
(* The inputs of the session specification.                                *)
(***************************************************************************)
RowSeparatorLists == {<<>>, << <<"\\", "n">> >>}

ColumnSeparatorLists == {<<>>, << <<",">> >>}

\* cleared, a pattern that compiles, a pattern that does not
RegexStrings == {<<>>, <<"b">>, <<"(">>}

\* cleared, rules that parse, text that does not, whitespace alone
IndexFilterStrings == {<<>>, <<"0">>, <<"x">>, <<" ">>}

Combinations == {"none", "and", "or"}

\* "" and "a,b\nb"
StdinSet == {<<>>, <<97, 44, 98, LF, 98>>}

InitializeFields ==
    {"row_separators", "row_regex_separator", "row_index_filters",
     "row_regex_filter", "row_filter_combination",
     "column_separators", "column_regex_separator", "column_index_filters",
     "column_regex_filter", "column_filter_combination"}

\* an Initialize request in which every field holds its protobuf default
EmptyInitialize ==
    [decoded |-> TRUE, inner |-> "initialize",
     row_separators |-> <<>>, row_regex_separator |-> <<>>,
     row_index_filters |-> <<>>, row_regex_filter |-> <<>>,
     row_filter_combination |-> "none",
     column_separators |-> <<>>, column_regex_separator |-> <<>>,
     column_index_filters |-> <<>>, column_regex_filter |-> <<>>,
     column_filter_combination |-> "none"]

\* an Initialize request in which every field holds a value that parses
FullInitialize ==
    [decoded |-> TRUE, inner |-> "initialize",
     row_separators |-> << <<"\\", "n">> >>, row_regex_separator |-> <<"b">>,
     row_index_filters |-> <<"0">>, row_regex_filter |-> <<"b">>,
     row_filter_combination |-> "and",
     column_separators |-> << <<",">> >>, column_regex_separator |-> <<"b">>,
     column_index_filters |-> <<"0">>, column_regex_filter |-> <<"b">>,
     column_filter_combination |-> "or"]

\* the payloads the model sends in field f of an Initialize request
FieldDomain(f) ==
    IF f = "row_separators" THEN RowSeparatorLists
    ELSE IF f = "column_separators" THEN ColumnSeparatorLists
    ELSE IF f \in {"row_index_filters", "column_index_filters"} THEN IndexFilterStrings
    ELSE IF f \in {"row_filter_combination", "column_filter_combination"}
    THEN Combinations
    ELSE RegexStrings

\* the Initialize requests that differ from the empty one, or from the full
\* one, in at most one field
InitializeRequests ==
    UNION {{[base EXCEPT ![f] = v] : v \in FieldDomain(f)} :
              base \in {EmptyInitialize, FullInitialize}, f \in InitializeFields}

SetRequests ==
    [decoded : {TRUE}, inner : {"set_row_separators"}, separators : RowSeparatorLists]
    \cup [decoded : {TRUE}, inner : {"set_column_separators"},
          separators : ColumnSeparatorLists]
    \cup [decoded : {TRUE},
          inner : {"set_row_regex_separator", "set_column_regex_separator"},
          separator : RegexStrings]
    \cup [decoded : {TRUE},
          inner : {"set_row_index_filters", "set_column_index_filters"},
          filters : IndexFilterStrings]
    \cup [decoded : {TRUE},
          inner : {"set_row_regex_filter", "set_column_regex_filter"},
          filter : RegexStrings]
    \cup [decoded : {TRUE},
          inner : {"set_row_filter_combination", "set_column_filter_combination"},
          combination : Combinations]

Undecodable == [decoded |-> FALSE]

EmptyMessage == [decoded |-> TRUE, inner |-> "none"]

Requests == InitializeRequests \cup SetRequests \cup {Undecodable, EmptyMessage}

TrieUnused ==
    /\ trie = new
    /\ inserted = {}
    /\ reinserted = FALSE
    /\ ninserts = 0
    /\ data = <<>>
    /\ segments = <<>>
    /\ tpc = "unused"

\* WebsocketConnection::new, called with Options::default() twice
InitSession ==
    /\ TrieUnused
    /\ call = [op |-> "none"]
    /\ NoConnection
    /\ stdin \in StdinSet
    /\ column_options = default
    /\ row_options = default
    /\ outbox = <<>>
    /\ nrequests = 0
    /\ nresponses = 0
    /\ nerrors = 0
    /\ request = <<>>
    /\ before = <<>>

Self == [stdin |-> stdin, column_options |-> column_options, row_options |-> row_options]

\* the session and the socket after a message: r is what handle_message made
Handle(r) ==
    /\ stdin' = r.self.stdin
    /\ column_options' = r.self.column_options
    /\ row_options' = r.self.row_options
    /\ outbox' = r.frames
    /\ nresponses' = nresponses + Len(r.frames)
    /\ nerrors' = nerrors + Cardinality({k \in 1..Len(r.frames) :
                                            r.frames[k].inner = "unexpected_error"})

\* StreamHandler::handle on a Binary message whose payload decodes to msg
Binary(msg) ==
    /\ nrequests < MaxRequests
    /\ Handle(handle_message(Self, msg))
    /\ nrequests' = nrequests + 1
    /\ request' = msg
    /\ before' = Self
    /\ UNCHANGED trieVars
    /\ UNCHANGED callVars
    /\ UNCHANGED <<clockVars, frameVars, otherVars>>

NextSession == \E msg \in Requests : Binary(msg)

SpecSession == InitSession /\ [][NextSession]_vars

(***************************************************************************)
(* Claims about the session.  They read the history variables: request is  *)
(* the message handled last and before is the session as it was when that  *)
(* message arrived.                                                        *)
(***************************************************************************)
Handled == nrequests > 0

\* the ten option fields, in the order initialize applies them
FieldOrder ==
    <<"row_separators", "row_regex_separator", "row_index_filters",
      "row_regex_filter", "row_filter_combination",
      "column_separators", "column_regex_separator", "column_index_filters",
      "column_regex_filter", "column_filter_combination">>

SeparatorFields == {"row_separators", "column_separators"}

CombinationFields == {"row_filter_combination", "column_filter_combination"}

StringFields == InitializeFields \ (SeparatorFields \cup CombinationFields)

OptionOf(self, f) ==
    CASE f = "row_separators" -> self.row_options.separators
      [] f = "row_regex_separator" -> self.row_options.regex_separator
      [] f = "row_index_filters" -> self.row_options.index_filters
      [] f = "row_regex_filter" -> self.row_options.regex_filter
      [] f = "row_filter_combination" -> self.row_options.filters_combination
      [] f = "column_separators" -> self.column_options.separators
      [] f = "column_regex_separator" -> self.column_options.regex_separator
      [] f = "column_index_filters" -> self.column_options.index_filters
      [] f = "column_regex_filter" -> self.column_options.regex_filter
      [] f = "column_filter_combination" -> self.column_options.filters_combination

\* what the parser of field f makes of the payload v
Parsed(f, v) ==
    IF f \in SeparatorFields THEN parse_field_separators(v)
    ELSE IF f \in {"row_index_filters", "column_index_filters"}
    THEN parse_index_filters(v)
    ELSE IF f \in CombinationFields THEN Ok(v)
    ELSE parse_regex(v)

FailsToParse(f, v) == ~Parsed(f, v).ok

\* the option a payload that parses stands for
NewValue(f, v) ==
    IF f \in CombinationFields
    THEN (IF v = "and" THEN Some("And") ELSE IF v = "or" THEN Some("Or") ELSE None)
    ELSE Some(Parsed(f, v).value)

IsInitialize == Handled /\ request.decoded /\ request.inner = "initialize"

\* a field of an Initialize request that initialize assigns: the separators,
\* the combination, and every string that is not empty
Applied(f) == f \notin StringFields \/ request[f] # <<>>

\* the position in FieldOrder of the first field of the Initialize request
\* that fails to parse, 0 when every field parses
FirstFailing ==
    LET failing == {k \in 1..Len(FieldOrder) :
                       /\ Applied(FieldOrder[k])
                       /\ FailsToParse(FieldOrder[k], request[FieldOrder[k]])}
    IN  IF failing = {} THEN 0
        ELSE CHOOSE k \in failing : \A j \in failing : k <= j

SetInner ==
    [row_separators |-> "set_row_separators",
     row_regex_separator |-> "set_row_regex_separator",
     row_index_filters |-> "set_row_index_filters",
     row_regex_filter |-> "set_row_regex_filter",
     row_filter_combination |-> "set_row_filter_combination",
     column_separators |-> "set_column_separators",
     column_regex_separator |-> "set_column_regex_separator",
     column_index_filters |-> "set_column_index_filters",
     column_regex_filter |-> "set_column_regex_filter",
     column_filter_combination |-> "set_column_filter_combination"]

IsSet == Handled /\ request.decoded /\ request.inner \notin {"initialize", "none"}

\* the option field a Set request targets, and its payload
Target == CHOOSE f \in InitializeFields : SetInner[f] = request.inner

Payload ==
    IF Target \in SeparatorFields THEN request.separators
    ELSE IF Target \in {"row_regex_separator", "column_regex_separator"}
    THEN request.separator
    ELSE IF Target \in {"row_index_filters", "column_index_filters"}
    THEN request.filters
    ELSE IF Target \in CombinationFields THEN request.combination
    ELSE request.filter

Now == [stdin |-> stdin, column_options |-> column_options, row_options |-> row_options]

CurrentCsv == transform_output(column_options, row_options, stdin).value

OneOutput == Len(outbox) = 1 /\ outbox[1].inner = "output"

OneError == Len(outbox) = 1 /\ outbox[1].inner = "unexpected_error"

\* the update a tagged request asks for succeeds: every payload it applies parses
UpdateSucceeds ==
    IF request.inner = "initialize" THEN FirstFailing = 0
    ELSE (Target \in StringFields /\ Payload = <<>>) \/ ~FailsToParse(Target, Payload)

\* C4: handling a request that decodes to a tagged variant puts exactly one
\* frame on the channel, the CSV of the current view when the update
\* succeeded and an error otherwise; it is on the channel when the handler
\* returns, so after i requests there are i responses and the last response
\* answers the last request.
C4_OneResponsePerRequest ==
    /\ nresponses = nrequests
    /\ (Handled /\ request.decoded /\ request.inner # "none")
          => /\ Len(outbox) = 1
             /\ UpdateSucceeds => outbox[1] = [inner |-> "output", output |-> CurrentCsv]
             /\ ~UpdateSucceeds => outbox[1].inner = "unexpected_error"

C4_Witness ==
    /\ nrequests = 2
    /\ IsSet
    /\ OneOutput
    /\ outbox[1].output # <<>>
    /\ OptionOf(Now, Target) # OptionOf(before, Target)

\* C5: after an Initialize that succeeds, every regex separator, index filter
\* and regex filter option whose field is the empty string is absent, and every
\* one whose field is not empty holds the newly parsed value.
C5_InitializeClearsEmptyFields ==
    (IsInitialize /\ FirstFailing = 0)
        => \A f \in StringFields :
              OptionOf(Now, f) =
                  IF request[f] = <<>> THEN None ELSE NewValue(f, request[f])

\* the sentence by which an InitializeError names the field that failed
SubFieldSentence(f) ==
    CASE f = "row_separators" -> "A row separator is invalid:"
      [] f = "row_regex_separator" -> "The row regex separator is invalid:"
      [] f = "row_index_filters" -> "The row index filters are invalid:"
      [] f = "row_regex_filter" -> "The row regex filter is invalid:"
      [] f = "column_separators" -> "A column separator is invalid:"
      [] f = "column_regex_separator" -> "The column regex separator is invalid:"
      [] f = "column_index_filters" -> "The column index filters are invalid:"
      [] f = "column_regex_filter" -> "The column regex filter is invalid:"

\* C6: when a field of an Initialize request fails to parse, the option that
\* field targets is absent afterwards and the error sent names that field.
C6_InitializeFailureClearsField ==
    (IsInitialize /\ FirstFailing # 0)
        => /\ OptionOf(Now, FieldOrder[FirstFailing]) = None
           /\ OneError
           /\ outbox[1].description[1] = SubFieldSentence(FieldOrder[FirstFailing])

\* C7: when Initialize fails on a field, every field it assigned before that
\* one (in FieldOrder) holds its new value, every field after it is unchanged,
\* and exactly one error and no CSV is sent.
C7_InitializePartialApplication ==
    (IsInitialize /\ FirstFailing # 0)
        => /\ \A k \in 1..(FirstFailing - 1) :
                 Applied(FieldOrder[k])
                    => OptionOf(Now, FieldOrder[k])
                           = NewValue(FieldOrder[k], request[FieldOrder[k]])
           /\ \A k \in (FirstFailing + 1)..Len(FieldOrder) :
                 OptionOf(Now, FieldOrder[k]) = OptionOf(before, FieldOrder[k])
           /\ OneError

C7_Witness ==
    /\ IsInitialize
    /\ FirstFailing # 0
    /\ OneError
    /\ \E k \in 1..(FirstFailing - 1) :
          /\ FieldOrder[k] \in StringFields
          /\ request[FieldOrder[k]] = <<"b">>
          /\ OptionOf(Now, FieldOrder[k]) # OptionOf(before, FieldOrder[k])
    /\ \E k \in (FirstFailing + 1)..Len(FieldOrder) :
          /\ OptionOf(Now, FieldOrder[k]) # None
          /\ OptionOf(Now, FieldOrder[k])
                 # NewValue(FieldOrder[k], request[FieldOrder[k]])

IsFallibleSet == IsSet /\ Target \notin CombinationFields

\* C8: when the payload of a Set Separators, RegexSeparator, IndexFilters or
\* RegexFilter request fails to parse, the targeted option is absent
\* afterwards, exactly one error is sent and no CSV.
C8_SetFailureClearsOption ==
    (IsFallibleSet /\ Payload # <<>> /\ FailsToParse(Target, Payload))
        => /\ OptionOf(Now, Target) = None
           /\ OneError

C8_Witness ==
    /\ IsFallibleSet
    /\ Payload # <<>>
    /\ FailsToParse(Target, Payload)
    /\ OptionOf(before, Target) # None
    /\ OptionOf(Now, Target) = None
    /\ OneError

\* C9: a Set request, whether it succeeds or fails, leaves every option field
\* but the one it targets unchanged, and no request changes the input buffer.
C9_SetTouchesOneOption ==
    /\ Handled => stdin = before.stdin
    /\ IsSet => \A f \in InitializeFields \ {Target} :
                   OptionOf(Now, f) = OptionOf(before, f)

C9_Witness ==
    /\ IsSet
    /\ stdin # <<>>
    /\ OptionOf(Now, Target) # OptionOf(before, Target)
    /\ \E f \in InitializeFields \ {Target} : OptionOf(Now, f) # None

\* C10: a Set RegexSeparator, IndexFilters or RegexFilter request whose
\* payload is the empty string makes the targeted option absent and succeeds:
\* one CSV of the view without that option is sent, and no error.
C10_EmptyPayloadClears ==
    (IsSet /\ Target \in StringFields /\ Payload = <<>>)
        => /\ OptionOf(Now, Target) = None
           /\ outbox = <<[inner |-> "output", output |-> CurrentCsv]>>

C10_Witness ==
    /\ IsSet
    /\ Target \in StringFields
    /\ Payload = <<>>
    /\ OptionOf(before, Target) # None
    /\ OptionOf(Now, Target) = None
    /\ OneOutput
    /\ outbox[1].output # <<>>

(***************************************************************************)
(* The transformer's functions called on their own, as the tests of        *)
(* transformers.rs call them: every action is one call, on arguments drawn *)
(* from the sets below, and leaves the call and its result in call.  The   *)
(* functions keep nothing between calls, so a behaviour is one call.       *)
(***************************************************************************)
NewlineTrie == insert(new, <<LF>>)

TabTrie == insert(new, <<TAB>>)

SeparatorOptions == {None, Some(NewlineTrie), Some(TabTrie)}

\* /d/
RegexOptions == {None, Some([literal |-> <<100>>])}

\* the rules of "0,2" and of "1, 5.."
IndexFilterOptions ==
    {None,
     Some(<<[kind |-> "Exact", j |-> 0], [kind |-> "Exact", j |-> 2]>>),
     Some(<<[kind |-> "Exact", j |-> 1], [kind |-> "LowerBounded", lower |-> 5]>>)}

CombinationOptions == {None, Some("And"), Some("Or")}

OptionsSet ==
    [separators : SeparatorOptions, regex_separator : {None},
     regex_filter : RegexOptions, index_filters : IndexFilterOptions,
     filters_combination : CombinationOptions]

ServerOptionsSet ==
    [separators : SeparatorOptions, regex_filter : RegexOptions,
     index_filters : IndexFilterOptions]

\* the options with the regex separator /d/ and no filter
RegexSeparatorOptionsSet ==
    [separators : {None, Some(NewlineTrie)},
     regex_separator : {Some([literal |-> <<100>>])},
     regex_filter : {None}, index_filters : {None}, filters_combination : {None}]

\* "", "a\nb\nc", "a\tb\nc\td", "a\tb\nd", "ad\td\nb\n\n"
Buffers ==
    {<<>>,
     <<97, LF, 98, LF, 99>>,
     <<97, TAB, 98, LF, 99, TAB, 100>>,
     <<97, TAB, 98, LF, 100>>,
     <<97, 100, TAB, 100, LF, 98, LF, LF>>}

\* "ab", "cd", "ef", "gh"
FourSegments == <<<<97, 98>>, <<99, 100>>, <<101, 102>>, <<103, 104>>>>

\* "The quick brown fox jumped over the lazy dog", a word cut to the letters
\* that tell it from the others: T q b f jd o t l dg
NineSegments ==
    <<<<84>>, <<113>>, <<98>>, <<102>>, <<106, 100>>, <<111>>, <<116>>, <<108>>,
      <<100, 103>>>>

SegmentLists ==
    {<<>>, <<<<100>>>>, <<<<100>>, <<100>>, <<97>>>>, FourSegments, NineSegments}

\* every rule the parser can build from indexes up to MaxIndex
IndexRules ==
    {[kind |-> "Exact", j |-> k] : k \in 0..MaxIndex}
    \cup {[kind |-> "Bounded", lower |-> a, upper |-> b] :
              a \in 0..MaxIndex, b \in 0..MaxIndex}
    \cup {[kind |-> "LowerBounded", lower |-> a] : a \in 0..MaxIndex}
    \cup {[kind |-> "UpperBounded", upper |-> b] : b \in 0..MaxIndex}

NoCalls ==
    /\ TrieUnused
    /\ stdin = <<>>
    /\ column_options = default
    /\ row_options = default
    /\ outbox = <<>>
    /\ nrequests = 0
    /\ nresponses = 0
    /\ nerrors = 0
    /\ request = <<>>
    /\ before = <<>>
    /\ call = [op |-> "none"]
    /\ NoConnection

InitCalls == NoCalls

\* transformers::transform_output of the vawk crate
CallTransformOutput(column_opts, row_opts, buf) ==
    /\ call.op = "none"
    /\ call' = [op |-> "transform_output",
                column_options |-> column_opts, row_options |-> row_opts,
                data |-> buf,
                table |-> table(column_opts, row_opts, buf),
                result |-> transform_output(column_opts, row_opts, buf)]
    /\ UNCHANGED <<trieVars, sessionVars, clockVars, frameVars, otherVars>>

\* transformers::transform_output of the server crate
CallServerTransformOutput(column_opts, row_opts, buf) ==
    /\ call.op = "none"
    /\ call' = [op |-> "server_transform_output",
                column_options |-> column_opts, row_options |-> row_opts,
                data |-> buf,
                table |-> server_table(column_opts, row_opts, buf),
                result |-> server_transform_output(column_opts, row_opts, buf)]
    /\ UNCHANGED <<trieVars, sessionVars, clockVars, frameVars, otherVars>>

\* keep_matches, on a list of segments
CallKeepMatches(options, fields) ==
    /\ call.op = "none"
    /\ call' = [op |-> "keep_matches", options |-> options, data |-> fields,
                result |-> keep_matches(options, fields)]
    /\ UNCHANGED <<trieVars, sessionVars, clockVars, frameVars, otherVars>>

\* keep_index_matches, as test::keep_index_matches calls it
CallKeepIndexMatches(rules, fields) ==
    /\ call.op = "none"
    /\ call' = [op |-> "keep_index_matches", rules |-> rules, data |-> fields,
                result |-> keep_index_matches(rules, fields)]
    /\ UNCHANGED <<trieVars, sessionVars, clockVars, frameVars, otherVars>>

\* keep_regex_matches, as test::keep_regex_matches calls it
CallKeepRegexMatches(regex, fields) ==
    /\ call.op = "none"
    /\ call' = [op |-> "keep_regex_matches", regex |-> regex, data |-> fields,
                result |-> keep_regex_matches(regex, fields)]
    /\ UNCHANGED <<trieVars, sessionVars, clockVars, frameVars, otherVars>>

\* IndexFilter::is_match
CallIsMatch(rule, i) ==
    /\ call.op = "none"
    /\ call' = [op |-> "is_match", rule |-> rule, i |-> i,
                result |-> is_match(rule, i)]
    /\ UNCHANGED <<trieVars, sessionVars, clockVars, frameVars, otherVars>>

\* split_into_records, the pipeline of one dimension
CallSplitIntoRecords(options, buf) ==
    /\ call.op = "none"
    /\ call' = [op |-> "split_into_records", options |-> options, data |-> buf,
                result |-> split_into_records(options, buf)]
    /\ UNCHANGED <<trieVars, sessionVars, clockVars, frameVars, otherVars>>

\* split_into_records of the server crate
CallServerSplitIntoRecords(options, buf) ==
    /\ call.op = "none"
    /\ call' = [op |-> "server_split_into_records", options |-> options, data |-> buf,
                result |-> server_split_into_records(options, buf)]
    /\ UNCHANGED <<trieVars, sessionVars, clockVars, frameVars, otherVars>>

\* the tries insert can build from the separators CR, LF, CR LF, CR CR, LF LF
Tries ==
    {t \in SUBSET {<<CR>>, <<LF>>, <<CR, LF>>, <<CR, CR>>, <<LF, LF>>} :
        \A q \in t : Len(q) = 2 => <<q[1]>> \in t}

\* merge, both ways round and grouped both ways
CallMerge(a, b, c) ==
    /\ call.op = "none"
    /\ call' = [op |-> "merge", a |-> a, b |-> b, c |-> c,
                a_b |-> merge(a, b),
                b_a |-> merge(b, a),
                a_bc |-> merge(a, merge(b, c)),
                ab_c |-> merge(merge(a, b), c)]
    /\ UNCHANGED <<trieVars, sessionVars, clockVars, frameVars, otherVars>>

\* the indexes the rules of the inputs name
FilterIndexes == {1, 5, 12}

FilterRules ==
    {[kind |-> "Exact", j |-> k] : k \in FilterIndexes}
    \cup {[kind |-> "Bounded", lower |-> a, upper |-> b] :
              a \in FilterIndexes, b \in FilterIndexes}
    \cup {[kind |-> "LowerBounded", lower |-> a] : a \in FilterIndexes}
    \cup {[kind |-> "UpperBounded", upper |-> b] : b \in FilterIndexes}

\* no rule, one rule, two rules
FilterRuleLists == SeqsUpTo(FilterRules, 2)

DigitChar(d) == CHOOSE c \in Digits : DigitValue(c) = d

Decimal(n) ==
    IF n < 10 THEN <<DigitChar(n)>> ELSE <<DigitChar(n \div 10), DigitChar(n % 10)>>

\* a rule as the user writes it
RuleText(rule) ==
    CASE rule.kind = "Exact" -> Decimal(rule.j)
      [] rule.kind = "Bounded" -> Decimal(rule.lower) \o <<".", ".">> \o Decimal(rule.upper)
      [] rule.kind = "LowerBounded" -> Decimal(rule.lower) \o <<".", ".">>
      [] rule.kind = "UpperBounded" -> <<".", ".">> \o Decimal(rule.upper)

\* the rules written one after the other with the comma sep between them
RECURSIVE RulesText(_, _)
RulesText(rules, sep) ==
    IF rules = <<>> THEN <<>>
    ELSE IF Len(rules) = 1 THEN RuleText(rules[1])
    ELSE RuleText(rules[1]) \o sep \o RulesText(Tail(rules), sep)

\* the comma, bare and with whitespace around it
CommaTexts == {<<",">>, <<",", " ">>, <<" ", ",", " ">>}

\* whitespace around the whole list
PadTexts == {<<>>, <<" ">>}

\* text after the list that is no rule: nothing, "x" or ", x"
TailTexts == {<<>>, <<"x">>, <<",", " ", "x">>}

\* parse_index_filters, on the text of the rules (rules) followed by rest
CallParseIndexFilters(rules, sep, ws, rest) ==
    /\ call.op = "none"
    /\ call' = [op |-> "parse_index_filters",
                input |-> ws \o RulesText(rules, sep) \o ws \o rest,
                rules |-> rules, rest |-> rest,
                result |-> parse_index_filters(ws \o RulesText(rules, sep) \o ws \o rest)]
    /\ UNCHANGED <<trieVars, sessionVars, clockVars, frameVars, otherVars>>

\* "", "\\n", "\\r\\n", ",", "\\s", "\\t", "é", "\\x", "ab"
SeparatorStrings ==
    {<<>>, <<"\\", "n">>, <<"\\", "r", "\\", "n">>, <<",">>, <<"\\", "s">>,
     <<"\\", "t">>, <<"é">>, <<"\\", "x">>, <<"a", "b">>}

\* parse_field_separators, as test::parse_field_separators calls it
CallParseFieldSeparators(string_representations) ==
    /\ call.op = "none"
    /\ call' = [op |-> "parse_field_separators", input |-> string_representations,
                result |-> parse_field_separators(string_representations)]
    /\ UNCHANGED <<trieVars, sessionVars, clockVars, frameVars, otherVars>>

(***************************************************************************)
(* The server-sent-event encoder (server/src/encoding.rs).  An encoded     *)
(* string is modelled by its length, and a chunk by the fields of its      *)
(* header and the number of characters after "data: ".  The loop of        *)
(* chunked is taken a run of characters at a time: the characters up to    *)
(* the next one at which chunk_size == MAX_CHUNK_SIZE can hold, or all     *)
(* that are left when there is none.                                       *)
(***************************************************************************)
MAX_CHUNK_SIZE == 8 * 1048576

\* the format! of the first chunk, which has no id, and of the later ones
first_header(event_type, total) ==
    [event |-> event_type, index |-> 0, total |-> total, id |-> None, payload |-> 0]

next_header(event_type, chunk_index, total, id) ==
    [event |-> event_type, index |-> chunk_index, total |-> total, id |-> Some(id),
     payload |-> 0]

\* encoded.len() / MAX_CHUNK_SIZE, and one more when there is a remainder
total_chunks(len) ==
    (len \div MAX_CHUNK_SIZE) + (IF len % MAX_CHUNK_SIZE > 0 THEN 1 ELSE 0)

\* the characters the loop pushes before the test of chunk_size can next hold
run_length(chunk_size, left) ==
    IF chunk_size < MAX_CHUNK_SIZE /\ MAX_CHUNK_SIZE - chunk_size < left
    THEN MAX_CHUNK_SIZE - chunk_size
    ELSE left

\* the loop over encoded.chars(), on its locals and the characters left
RECURSIVE chunked_loop(_, _, _, _)
chunked_loop(st, left, id, event_type) ==
    IF left = 0 THEN st
    ELSE IF st.chunk_size + run_length(st.chunk_size, left) = MAX_CHUNK_SIZE
    THEN chunked_loop(
             [chunk_size |-> MAX_CHUNK_SIZE,
              chunks |-> Append(st.chunks,
                                [st.chunk EXCEPT
                                     !.payload = @ + run_length(st.chunk_size, left)]),
              chunk_index |-> st.chunk_index + 1,
              chunk |-> next_header(event_type, st.chunk_index + 1,
                                    st.chunk.total, id)],
             left - run_length(st.chunk_size, left), id, event_type)
    ELSE chunked_loop(
             [st EXCEPT !.chunk_size = @ + run_length(st.chunk_size, left),
                        !.chunk.payload = @ + run_length(st.chunk_size, left)],
             left - run_length(st.chunk_size, left), id, event_type)

\* the chunk left after the loop is pushed: it holds its header at least
chunked_of(st) == Append(st.chunks, st.chunk)

chunked(encoded, id, event_type) ==
    chunked_of(chunked_loop([chunk_size |-> 0, chunks |-> <<>>, chunk_index |-> 0,
                             chunk |-> first_header(event_type,
                                                    total_chunks(encoded))],
                            encoded, id, event_type))

\* the lengths of the encoded strings
EncodedLengths ==
    {0, 1, MAX_CHUNK_SIZE - 1, MAX_CHUNK_SIZE, MAX_CHUNK_SIZE + 1,
     2 * MAX_CHUNK_SIZE, 2 * MAX_CHUNK_SIZE + 1, 3 * MAX_CHUNK_SIZE}

\* stdout_chunks and stderr_chunks, after the encoding
CallChunked(encoded, id, event_type) ==
    /\ call.op = "none"
    /\ call' = [op |-> "chunked", encoded |-> encoded, id |-> id,
                event_type |-> event_type,
                result |-> chunked(encoded, id, event_type)]
    /\ UNCHANGED <<trieVars, sessionVars, clockVars, frameVars, otherVars>>

NextCalls ==
    \/ \E encoded \in EncodedLengths, id \in {0, 7},
          event_type \in {"stdout", "stderr"} :
           CallChunked(encoded, id, event_type)
    \/ \E column_opts \in OptionsSet, row_opts \in OptionsSet, buf \in Buffers :
           CallTransformOutput(column_opts, row_opts, buf)
    \/ \E column_opts \in ServerOptionsSet, row_opts \in ServerOptionsSet,
          buf \in Buffers :
           CallServerTransformOutput(column_opts, row_opts, buf)
    \/ \E options \in OptionsSet, fields \in SegmentLists :
           CallKeepMatches(options, fields)
    \/ \E rules \in IndexFilterOptions \ {None}, fields \in SegmentLists :
           CallKeepIndexMatches(rules[1], fields)
    \/ \E regex \in RegexOptions \ {None}, fields \in SegmentLists :
           CallKeepRegexMatches(regex[1], fields)
    \/ \E rule \in IndexRules, i \in 0..(MaxIndex + 1) : CallIsMatch(rule, i)
    \/ \E options \in OptionsSet \cup RegexSeparatorOptionsSet, buf \in Buffers :
           CallSplitIntoRecords(options, buf)
    \/ \E options \in ServerOptionsSet, buf \in Buffers :
           CallServerSplitIntoRecords(options, buf)
    \/ \E a \in Tries, b \in Tries, c \in Tries : CallMerge(a, b, c)
    \/ \E rules \in FilterRuleLists, sep \in CommaTexts, ws \in PadTexts,
          rest \in TailTexts :
           CallParseIndexFilters(rules, sep, ws, rest)
    \/ \E string_representations \in SeqsUpTo(SeparatorStrings, 2) :
           CallParseFieldSeparators(string_representations)

SpecCalls == InitCalls /\ [][NextCalls]_vars

(***************************************************************************)
(* Claims about the transformer's functions.                               *)
(***************************************************************************)
IsDriverCall == call.op \in {"transform_output", "server_transform_output"}

\* dimension_split as the called crate implements it
dimension_split(options, buf) ==
    IF call.op = "server_transform_output"
    THEN server_split_into_records(options, buf)
    ELSE split_into_records(options, buf)

\* row r of the table starts with the cells the column split of row_bytes gives
StartsWithCells(row, cells) ==
    /\ Len(row) >= Len(cells)
    /\ \A c \in 1..Len(cells) : row[c] = cells[c]

RowsThenColumns(rows) ==
    /\ Len(call.table) = Len(rows)
    /\ \A r \in 1..Len(rows) :
           StartsWithCells(call.table[r], dimension_split(call.column_options, rows[r]))

\* C11: the 2-D driver splits the buffer with row_options into rows and each
\* row with column_options into cells: cell (r, c) of the table is segment c
\* of dimension_split(column_options, R_r), R_r being segment r of
\* dimension_split(row_options, buffer).
C11_DriverSplitsRowsThenColumns ==
    IsDriverCall => RowsThenColumns(dimension_split(call.row_options, call.data))

\* the segments of fields at the 0-based positions in S, in their order
RECURSIVE SelectUpTo(_, _, _)
SelectUpTo(fields, S, n) ==
    IF n = 0 THEN <<>>
    ELSE SelectUpTo(fields, S, n - 1)
         \o (IF (n - 1) \in S THEN <<fields[n]>> ELSE <<>>)

Select(fields, S) == SelectUpTo(fields, S, Len(fields))

Positions(fields) == 0..(Len(fields) - 1)

\* the index rules as the specification reads them
RuleMatches(rule, i) ==
    \/ rule.kind = "Exact" /\ i = rule.j
    \/ rule.kind = "Bounded" /\ rule.lower <= i /\ i < rule.upper
    \/ rule.kind = "LowerBounded" /\ i >= rule.lower
    \/ rule.kind = "UpperBounded" /\ i < rule.upper

IndexMatch(rules, i) == \E k \in 1..Len(rules) : RuleMatches(rules[k], i)

\* a regex of plain characters matches a segment its characters occur in
RegexMatch(regex, field) ==
    \E k \in 1..(Len(field) + 1) :
        /\ k + Len(regex.literal) - 1 <= Len(field)
        /\ SubSeq(field, k, k + Len(regex.literal) - 1) = regex.literal

IsKeepMatches == call.op = "keep_matches"

HasIndexFilters == IsKeepMatches /\ call.options.index_filters # None

HasRegexFilter == IsKeepMatches /\ call.options.regex_filter # None

KeptByEither ==
    {i \in Positions(call.data) :
        \/ IndexMatch(call.options.index_filters[1], i)
        \/ RegexMatch(call.options.regex_filter[1], call.data[i + 1])}

KeptByBoth ==
    {i \in Positions(call.data) :
        /\ IndexMatch(call.options.index_filters[1], i)
        /\ RegexMatch(call.options.regex_filter[1], call.data[i + 1])}

\* C12: with index filters I and a regex filter R both present, keep retains
\* the segment at position i iff some rule of I matches i OR R matches the
\* segment when the combination is OR, and iff both hold when it is AND or
\* absent.
C12_KeepCombinesBothFilters ==
    (HasIndexFilters /\ HasRegexFilter) =>
        call.result = Select(call.data,
                             IF call.options.filters_combination = Some("Or")
                             THEN KeptByEither ELSE KeptByBoth)

\* [ab, cd, ef, gh] with index filter 0,2 and /d/ under OR gives [ab, cd, ef]
C12_Witness ==
    /\ HasIndexFilters /\ HasRegexFilter
    /\ call.data = FourSegments
    /\ call.options.filters_combination = Some("Or")
    /\ call.options.index_filters[1][2].kind = "Exact"
    /\ call.result = <<<<97, 98>>, <<99, 100>>, <<101, 102>>>>

KeptByIndex(rules) == {i \in Positions(call.data) : IndexMatch(rules, i)}

KeptByRegex(regex) ==
    {i \in Positions(call.data) : RegexMatch(regex, call.data[i + 1])}

IsKeepCall ==
    call.op \in {"keep_matches", "keep_index_matches", "keep_regex_matches"}

IsSubsequence ==
    \E S \in SUBSET Positions(call.data) : call.result = Select(call.data, S)

\* C13: with one kind of filter present the filter returns exactly the
\* segments that satisfy it, unmodified and in their original order: with
\* index rules alone the segments whose 0-based position matches a rule, with
\* a regex alone the segments the regex matches; the output is always a
\* subsequence of the input.
C13_OneFilterKeepsItsMatches ==
    /\ (HasIndexFilters /\ ~HasRegexFilter) =>
           call.result = Select(call.data, KeptByIndex(call.options.index_filters[1]))
    /\ (HasRegexFilter /\ ~HasIndexFilters) =>
           call.result = Select(call.data, KeptByRegex(call.options.regex_filter[1]))
    /\ call.op = "keep_index_matches" =>
           call.result = Select(call.data, KeptByIndex(call.rules))
    /\ call.op = "keep_regex_matches" =>
           call.result = Select(call.data, KeptByRegex(call.regex))
    /\ IsKeepCall => IsSubsequence

\* the rules "1, 5.." on the nine segments keep positions 1, 5, 6, 7, 8
C13_Witness ==
    /\ call.op = "keep_index_matches"
    /\ call.data = NineSegments
    /\ call.rules[2].kind = "LowerBounded"
    /\ call.result = <<<<113>>, <<111>>, <<116>>, <<108>>, <<100, 103>>>>

\* C14: Exact(k) matches i iff i = k; Bounded(a, b) matches iff a <= i < b, so
\* nothing when a >= b; LowerBounded(a) matches iff i >= a; UpperBounded(b)
\* matches iff i < b.
C14_IndexRuleMatching ==
    call.op = "is_match" =>
        /\ call.result = RuleMatches(call.rule, call.i)
        /\ (call.rule.kind = "Bounded" /\ call.rule.lower >= call.rule.upper)
               => ~call.result

\* Bounded(2, 3) matches 2 and nothing else
C14_Witness ==
    /\ call.op = "is_match"
    /\ call.rule = [kind |-> "Bounded", lower |-> 2, upper |-> 3]
    /\ call.i = 2
    /\ call.result

\* the rows of the current view before padding: each row after the column
\* split and filter
NaturalRows ==
    split_each(call.column_options,
               split_into_records(call.row_options, call.data))

Widths(rows) == {Len(rows[r]) : r \in 1..Len(rows)}

\* the maximum natural row width, 0 for a table without rows
MaxWidth(rows) ==
    IF rows = <<>> THEN 0
    ELSE CHOOSE w \in Widths(rows) : \A v \in Widths(rows) : v <= w

\* row is natural followed by empty cells only
PaddedOnTheRight(row, natural) ==
    /\ Len(row) >= Len(natural)
    /\ SubSeq(row, 1, Len(natural)) = natural
    /\ \A c \in (Len(natural) + 1)..Len(row) : row[c] = <<>>

\* C17: every row of the emitted table has exactly W cells, W being the
\* maximum number of cells any row has after the column split and filter;
\* shorter rows are extended only by empty cells appended on the right, their
\* own cells keeping content and order.
C17_RowsPaddedToWidest ==
    call.op = "transform_output" =>
        /\ Len(call.table) = Len(NaturalRows)
        /\ \A r \in 1..Len(call.table) :
               /\ Len(call.table[r]) = MaxWidth(NaturalRows)
               /\ PaddedOnTheRight(call.table[r], NaturalRows[r])
        /\ call.result = Ok(write_records(call.table))

\* "a\tb\nd": the second row has one cell and is given a second, empty one
C17_Witness ==
    /\ call.op = "transform_output"
    /\ call.data = <<97, TAB, 98, LF, 100>>
    /\ call.table = << << <<97>>, <<98>> >>, << <<100>>, <<>> >> >>

(***************************************************************************)
(* The connection actor: StreamHandler::handle on the items of the stream  *)
(* and the interval Actor::started sets up.  The generated wire codec is   *)
(* not part of the sources; a payload is modelled as a string of wire      *)
(* units, a field tag or the length 0 of an empty sub-message, and decodes *)
(* as a field-tagged encoding does: field after field, the last field of   *)
(* the oneof winning, the empty string giving the message without a tag.   *)
(***************************************************************************)
TagSetRowIndexFilters == "tag set_row_index_filters"

EmptyBody == "length 0"

RECURSIVE parse_fields(_, _)
parse_fields(bytes, message) ==
    IF bytes = <<>> THEN message
    ELSE IF Len(bytes) >= 2 /\ bytes[1] = TagSetRowIndexFilters /\ bytes[2] = EmptyBody
    THEN parse_fields(SubSeq(bytes, 3, Len(bytes)),
                      [decoded |-> TRUE, inner |-> "set_row_index_filters",
                       filters |-> <<>>])
    ELSE Undecodable

\* FromClient::parse_from_bytes
parse_from_bytes(bytes) == parse_fields(bytes, EmptyMessage)

\* set_first_frame_part keeping what the frame held
set_first_frame_part_appending(frame, bytes) ==
    IF frame = None THEN Some(bytes) ELSE Some(frame[1] \o bytes)

\* the three setters of continuation_frame, on its value (frame)
set_first_frame_part(frame, bytes) == Some(bytes)

set_frame_part(frame, additional_data) ==
    IF frame = None THEN set_first_frame_part(frame, additional_data)
    ELSE Some(frame[1] \o additional_data)

set_last_frame_part(frame, additional_data) ==
    IF frame = None THEN set_first_frame_part(frame, additional_data)
    ELSE Some(frame[1] \o additional_data)

\* the halves of a message on the wire, as a peer may cut it
PartPayloads == {<<TagSetRowIndexFilters>>, <<EmptyBody>>}

WholePayloads == {<<>>, <<TagSetRowIndexFilters, EmptyBody>>}

\* Actor::started on a session made by WebsocketConnection::new
InitConnection ==
    /\ TrieUnused
    /\ call = [op |-> "none"]
    /\ stdin = <<97, 44, 98, LF, 98>>
    /\ column_options = default
    /\ row_options = default
    /\ outbox = <<>>
    /\ nrequests = 0
    /\ nresponses = 0
    /\ nerrors = 0
    /\ request = <<>>
    /\ before = <<>>
    /\ now = 0
    /\ last_seen_heartbeat = 0
    /\ next_tick = HEARTBEAT_INTERVAL
    /\ continuation_frame = None
    /\ stopped = FALSE
    /\ system_stopped = FALSE
    /\ control = "none"
    /\ npings = 0
    /\ parts = <<>>
    /\ assembled = <<>>
    /\ starved = FALSE
    /\ close_frame = None
    /\ twin = None
    /\ NoCommand

\* self.handle_message(ctx, bytes)
Dispatch(bytes) ==
    /\ Handle(handle_message(Self, parse_from_bytes(bytes)))
    /\ nrequests' = nrequests + 1
    /\ request' = parse_from_bytes(bytes)
    /\ before' = Self

Item(kind, bytes) == [kind |-> kind, data |-> bytes]

\* Continuation(Item::FirstText(data)) and Continuation(Item::FirstBinary(data))
FirstPart(bytes) ==
    /\ Len(parts) < MaxItems
    /\ continuation_frame' = set_first_frame_part(continuation_frame, bytes)
    /\ parts' = Append(parts, Item("First", bytes))
    /\ UNCHANGED <<trieVars, sessionVars, callVars, clockVars, otherVars, assembled>>

\* Continuation(Item::Continue(additional_data))
ContinuePart(bytes) ==
    /\ Len(parts) < MaxItems
    /\ continuation_frame' = set_frame_part(continuation_frame, bytes)
    /\ parts' = Append(parts, Item("Continue", bytes))
    /\ UNCHANGED <<trieVars, sessionVars, callVars, clockVars, otherVars, assembled>>

\* send_full_continuation_frame, on the frame set_last_frame_part left
SendFullContinuationFrame(frame) ==
    IF frame = None
    THEN UNCHANGED <<sessionVars, assembled>>
    ELSE /\ Dispatch(frame[1])
         /\ assembled' = Append(assembled, frame[1])

\* Continuation(Item::Last(additional_data))
LastPart(bytes) ==
    /\ Len(parts) < MaxItems
    /\ continuation_frame' = set_last_frame_part(continuation_frame, bytes)
    /\ SendFullContinuationFrame(set_last_frame_part(continuation_frame, bytes))
    /\ parts' = Append(parts, Item("Last", bytes))
    /\ UNCHANGED <<trieVars, callVars, clockVars, otherVars>>

\* Binary(data) that also goes into the continuation buffer
BinaryFrame_into_buffer(bytes) ==
    /\ Len(parts) < MaxItems
    /\ Dispatch(bytes)
    /\ parts' = Append(parts, Item("Binary", bytes))
    /\ continuation_frame' = set_frame_part(continuation_frame, bytes)
    /\ UNCHANGED <<trieVars, callVars, clockVars, otherVars, assembled>>

\* Binary(data), by its payload; Text(text) hands handle_message the same bytes
BinaryFrame(bytes) ==
    /\ Len(parts) < MaxItems
    /\ Dispatch(bytes)
    /\ parts' = Append(parts, Item("Binary", bytes))
    /\ UNCHANGED <<trieVars, callVars, clockVars, otherVars, continuation_frame, assembled>>

NextContinuation ==
    \/ \E bytes \in PartPayloads : FirstPart(bytes)
    \/ \E bytes \in PartPayloads : ContinuePart(bytes)
    \/ \E bytes \in PartPayloads : LastPart(bytes)
    \/ \E bytes \in WholePayloads : BinaryFrame(bytes)

SpecContinuation == InitConnection /\ [][NextContinuation]_vars

\* the items of the history that are the Last part of a fragmented message
LastItems == {k \in 1..Len(parts) : parts[k].kind = "Last"}

\* the items of the history that hand a payload to handle_message
DispatchingItems == {k \in 1..Len(parts) : parts[k].kind \in {"Last", "Binary"}}

\* the place among the assembled payloads of the one the Last part at k made
Rank(k) == Cardinality({j \in LastItems : j <= k})

\* the bytes of the items f..k of the history, in arrival order
RECURSIVE PartsData(_, _)
PartsData(f, k) ==
    IF f > k THEN <<>> ELSE parts[f].data \o PartsData(f + 1, k)

\* the items f..k are First, Continue ... Continue, Last
IsPartSequence(f, k) ==
    /\ f < k
    /\ parts[f].kind = "First"
    /\ parts[k].kind = "Last"
    /\ \A m \in (f + 1)..(k - 1) : parts[m].kind = "Continue"

\* C19: for a part sequence First(p0), Continue(p1) ... Last(pn) nothing is
\* dispatched on First or Continue, and on Last exactly one message is
\* dispatched, whose payload is p0 p1 ... pn in arrival order whatever the
\* session handled before the sequence.
C19_ContinuationReassembly ==
    /\ nrequests = Cardinality(DispatchingItems)
    /\ Len(assembled) = Cardinality(LastItems)
    /\ \A k \in LastItems : \A f \in 1..k :
           IsPartSequence(f, k) => assembled[Rank(k)] = PartsData(f, k)
    /\ (parts # <<>> /\ parts[Len(parts)].kind = "Last") =>
           request = parse_from_bytes(assembled[Len(assembled)])

\* a second message cut in two, after a first one cut in two
C19_Witness ==
    /\ Len(parts) = 4
    /\ IsPartSequence(1, 2)
    /\ IsPartSequence(3, 4)
    /\ assembled[2] = <<TagSetRowIndexFilters, EmptyBody>>
    /\ request = [decoded |-> TRUE, inner |-> "set_row_index_filters",
                  filters |-> <<>>]
    /\ nrequests = 2

\* the Last part at k came with no First part since the dispatch before it
IsStray(k) ==
    \A m \in 1..(k - 1) :
        parts[m].kind = "First" => \E j \in LastItems : m < j /\ j < k

\* the first item after the dispatch of a fragmented message before k
SincePreviousDispatch(k) ==
    1 + Cardinality({m \in 1..(k - 1) : \E j \in LastItems : m <= j /\ j < k})

\* C20: a Continue or Last part that arrives with no First part pending, at
\* session start or after a fragmented message was dispatched, is treated as
\* the First part: the payload assembled from it holds only the bytes of the
\* parts received since the previous dispatch.
C20_StrayPartStartsAfresh ==
    \A k \in LastItems :
        (IsStray(k) /\ \A m \in SincePreviousDispatch(k)..k : parts[m].kind # "Binary")
            => assembled[Rank(k)] = PartsData(SincePreviousDispatch(k), k)

(***************************************************************************)
(* The heartbeat: the interval of Actor::started against the pings and     *)
(* pongs of the peer.  Time is counted in milliseconds and passes in steps *)
(* of half an interval; it does not pass a tick that is due.  starved      *)
(* records that the time since the last heartbeat went over                *)
(* CLIENT_TIMEOUT at some moment since the last tick.                      *)
(***************************************************************************)
TimeStep == HEARTBEAT_INTERVAL \div 2

\* the test of the interval with a whole interval of grace
timed_out_late(instant, last_seen) ==
    instant - last_seen > CLIENT_TIMEOUT + HEARTBEAT_INTERVAL

\* Instant::now().duration_since(connection.last_seen_heartbeat) > CLIENT_TIMEOUT
timed_out(instant, last_seen) == instant - last_seen > CLIENT_TIMEOUT

Advance ==
    /\ ~stopped
    /\ now < next_tick
    /\ now + TimeStep <= MaxTime
    /\ now' = now + TimeStep
    /\ starved' = (starved \/ now + TimeStep - last_seen_heartbeat > CLIENT_TIMEOUT)
    /\ UNCHANGED <<last_seen_heartbeat, next_tick, stopped, system_stopped, control, npings>>
    /\ UNCHANGED <<trieVars, sessionVars, callVars, frameVars, otherVars, close_frame>>

\* the closure Actor::started hands to run_interval
Tick ==
    /\ ~stopped
    /\ now = next_tick
    /\ next_tick' = now + HEARTBEAT_INTERVAL
    /\ IF timed_out(now, last_seen_heartbeat)
       THEN /\ stopped' = TRUE
            /\ system_stopped' = TRUE
            /\ UNCHANGED <<control, npings>>
       ELSE /\ control' = "ping"
            /\ npings' = npings + 1
            /\ UNCHANGED <<stopped, system_stopped>>
    /\ starved' = FALSE
    /\ UNCHANGED <<now, last_seen_heartbeat>>
    /\ UNCHANGED <<trieVars, sessionVars, callVars, frameVars, otherVars, close_frame>>

\* Ping(data)
Ping ==
    /\ ~stopped
    /\ last_seen_heartbeat' = now
    /\ control' = "pong"
    /\ UNCHANGED <<now, next_tick, stopped, system_stopped, npings, starved>>
    /\ UNCHANGED <<trieVars, sessionVars, callVars, frameVars, otherVars, close_frame>>

\* Pong(_)
Pong ==
    /\ ~stopped
    /\ last_seen_heartbeat' = now
    /\ UNCHANGED <<now, next_tick, stopped, system_stopped, control, npings, starved>>
    /\ UNCHANGED <<trieVars, sessionVars, callVars, frameVars, otherVars, close_frame>>

NextHeartbeat ==
    \/ Advance
    \/ Tick
    \/ Ping
    \/ Pong

SpecHeartbeat == InitConnection /\ [][NextHeartbeat]_vars

\* a step of the interval
IsTick == next_tick' # next_tick

\* C18 as stated: whenever the time since the last ping or pong exceeds
\* CLIENT_TIMEOUT, the session is stopped and the process is signalled to exit
\* no later than the next heartbeat tick.
C18_StarvationStopsByNextTick ==
    [][(IsTick /\ starved) => (stopped' /\ system_stopped')]_vars

\* C18: at every heartbeat tick at which the time since the last ping or pong
\* exceeds CLIENT_TIMEOUT the session is stopped and the process is signalled
\* to exit, so a running session is never more than CLIENT_TIMEOUT plus one
\* HEARTBEAT_INTERVAL past its last heartbeat; a ping or pong that arrives
\* before the tick keeps the session running.
C18_HeartbeatWatchdog ==
    /\ [](~stopped => now - last_seen_heartbeat <= CLIENT_TIMEOUT + HEARTBEAT_INTERVAL)
    /\ [](stopped <=> system_stopped)
    /\ [][(IsTick /\ now - last_seen_heartbeat > CLIENT_TIMEOUT)
              => (stopped' /\ system_stopped')]_vars
    /\ [][(IsTick /\ now - last_seen_heartbeat <= CLIENT_TIMEOUT) => ~stopped']_vars

\* the last heartbeat came at 50 ms and the tick at 600 ms stopped the session
C18_Witness ==
    /\ stopped
    /\ system_stopped
    /\ last_seen_heartbeat = TimeStep
    /\ now = CLIENT_TIMEOUT + HEARTBEAT_INTERVAL

(***************************************************************************)
(* Claims about the errors of the session.                                 *)
(***************************************************************************)
ErrorFrame(text) == [inner |-> "unexpected_error", description |-> text]

SessionOpen == ~stopped /\ ~system_stopped /\ close_frame = None

\* the last message was answered with an error, whichever error
AnsweredWithError == Handled /\ OneError

\* the last message could not be read: it did not decode or carried no variant
Unreadable == Handled /\ (~request.decoded \/ request.inner = "none")

\* an error was reported before the last message, which asks for an update
\* that succeeds
ValidAfterError ==
    /\ Handled
    /\ request.decoded
    /\ request.inner # "none"
    /\ UpdateSucceeds
    /\ nerrors > 0

\* C21 as stated: a payload that fails wire decoding gets one
\* MessageParseError response and a message with no variant one
\* EmptyMessageError response; in both cases and after any parse or compile
\* error response all options are unchanged by the bad message, the session
\* stays open, and later valid requests are processed normally.
C21_NoErrorChangesOptions ==
    /\ SessionOpen
    /\ (Handled /\ ~request.decoded) => outbox = <<ErrorFrame(MessageParseErrorText)>>
    /\ (Handled /\ request.decoded /\ request.inner = "none")
           => outbox = <<ErrorFrame(EmptyMessageErrorText)>>
    /\ AnsweredWithError => Now = before
    /\ ValidAfterError => outbox = <<[inner |-> "output", output |-> CurrentCsv]>>

\* C21: a payload that fails wire decoding gets one MessageParseError response
\* and a message with no variant one EmptyMessageError response, and neither
\* changes an option; no error response closes the session, and a valid
\* request that follows an error is answered with the CSV of the current
\* view.  (A parse or compile error does change options: the option of a Set
\* request is cleared, the fields of an Initialize before the failing one are
\* applied.)
C21_NoErrorIsFatal ==
    /\ SessionOpen
    /\ (Handled /\ ~request.decoded) => outbox = <<ErrorFrame(MessageParseErrorText)>>
    /\ (Handled /\ request.decoded /\ request.inner = "none")
           => outbox = <<ErrorFrame(EmptyMessageErrorText)>>
    /\ Unreadable => Now = before
    /\ ValidAfterError => outbox = <<[inner |-> "output", output |-> CurrentCsv]>>

\* a message answered with an error that left the options alone, and then a
\* request that sets an option and is answered with the CSV
C21_Witness ==
    /\ nrequests = 2
    /\ nerrors = 1
    /\ before.row_options = default
    /\ before.column_options = default
    /\ IsSet
    /\ OneOutput
    /\ Now # before

(***************************************************************************)
(* Two sessions on the same input buffer, each with its own history of     *)
(* requests.  twin is the pair of them; a session of the pair is its       *)
(* fields (self), the frames its last message put on ctx, the messages it  *)
(* handled (history) and its fields when the last one arrived (before).    *)
(***************************************************************************)
TwinRequests ==
    {[decoded |-> TRUE, inner |-> "set_row_separators", separators |-> <<<<"\\", "n">>>>],
     [decoded |-> TRUE, inner |-> "set_column_separators", separators |-> <<<<",">>>>],
     [decoded |-> TRUE, inner |-> "set_row_regex_filter", filter |-> <<"b">>],
     [decoded |-> TRUE, inner |-> "set_row_regex_filter", filter |-> <<"(">>]}

\* WebsocketConnection::new on the buffer buf
NewSession(buf) ==
    [self |-> [stdin |-> buf, column_options |-> default, row_options |-> default],
     frames |-> <<>>,
     history |-> <<>>,
     before |-> <<>>]

InitTwins ==
    /\ TrieUnused
    /\ call = [op |-> "none"]
    /\ stdin = <<>>
    /\ column_options = default
    /\ row_options = default
    /\ outbox = <<>>
    /\ nrequests = 0
    /\ nresponses = 0
    /\ nerrors = 0
    /\ request = <<>>
    /\ before = <<>>
    /\ now = 0
    /\ last_seen_heartbeat = 0
    /\ next_tick = 0
    /\ continuation_frame = None
    /\ stopped = FALSE
    /\ system_stopped = FALSE
    /\ control = "none"
    /\ npings = 0
    /\ parts = <<>>
    /\ assembled = <<>>
    /\ starved = FALSE
    /\ close_frame = None
    /\ NoCommand
    /\ \E buf \in StdinSet : twin = <<NewSession(buf), NewSession(buf)>>

\* the session keeps the response of its first message and sends it again
TwinHandled_resending(s, msg, r) ==
    [self |-> r.self,
     frames |-> IF s.frames = <<>> THEN r.frames ELSE s.frames,
     history |-> Append(s.history, msg),
     before |-> s.self]

\* the session s after the message msg: r is what handle_message made
TwinHandled(s, msg, r) ==
    [self |-> r.self,
     frames |-> r.frames,
     history |-> Append(s.history, msg),
     before |-> s.self]

\* StreamHandler::handle on a Binary message, in session i of the pair
TwinBinary(i, msg) ==
    /\ Len(twin[i].history) < MaxRequests
    /\ twin' = [twin EXCEPT
                   ![i] = TwinHandled(twin[i], msg, handle_message(twin[i].self, msg))]
    /\ UNCHANGED <<trieVars, sessionVars, callVars, clockVars, frameVars, commandVars>>

NextTwins == \E i \in {1, 2}, msg \in TwinRequests : TwinBinary(i, msg)

SpecTwins == InitTwins /\ [][NextTwins]_vars

SentOutput(s) == Len(s.frames) = 1 /\ s.frames[1].inner = "output"

IsPipelineCall == call.op \in {"split_into_records", "server_split_into_records"}

\* the options of the call set no separator and no filter
NothingSet ==
    /\ call.options.separators = None
    /\ call.options.index_filters = None
    /\ call.options.regex_filter = None
    /\ call.op = "split_into_records" => call.options.regex_separator = None

\* C23: with no literal separators set for a dimension, and no regex separator
\* or filters, the 1-D pipeline returns exactly one segment, equal to the
\* whole buffer.
C23_NoSeparatorsOneSegment ==
    (IsPipelineCall /\ NothingSet) => call.result = <<call.data>>

\* "a\tb\nd" comes back whole
C23_Witness ==
    /\ call.op = "split_into_records"
    /\ call.options = default
    /\ call.data = <<97, TAB, 98, LF, 100>>
    /\ call.result = <<<<97, TAB, 98, LF, 100>>>>

(***************************************************************************)
(* Claims about the trie on its own.                                       *)
(***************************************************************************)
\* the byte strings membership is asked about
Probes == SeqsUpTo(DataBytes, 3)

\* C24: for any prefix p that is not a prefix of any inserted separator,
\* membership(p) is NotIncluded, whatever set of separators was inserted.
C24_NonPrefixNotIncluded ==
    \A p \in Probes :
        (~\E sep \in inserted : IsPrefix(p, sep)) => membership(trie, p) = "NotIncluded"

\* CR LF was inserted, twice, and LF: neither CR CR nor LF CR is in the trie
C24_Witness ==
    /\ inserted = {<<CR, LF>>, <<LF>>}
    /\ reinserted
    /\ membership(trie, <<CR, LF>>) = "IncludedAndTerminal"
    /\ membership(trie, <<CR, CR>>) = "NotIncluded"
    /\ membership(trie, <<LF, CR>>) = "NotIncluded"

\* a step that inserts a byte string inserted before
IsReinsert == ninserts' = ninserts + 1 /\ inserted' = inserted

\* C25: insert is idempotent: inserting a byte sequence that was already
\* inserted leaves the trie unchanged, structurally and in every membership
\* answer.
C25_InsertIdempotent ==
    [][IsReinsert =>
           /\ trie' = trie
           /\ \A p \in Probes : membership(trie', p) = membership(trie, p)]_vars

\* C26: merge is commutative and associative: merging B into A gives a trie
\* equal to merging A into B, and merging (B merged with C) into A equals
\* merging C into (A merged with B).
C26_MergeCommutativeAssociative ==
    call.op = "merge" =>
        /\ call.a_b = call.b_a
        /\ call.a_bc = call.ab_c

\* A holds CR LF and B holds CR CR and LF: the merge holds all of them
C26_Witness ==
    /\ call.op = "merge"
    /\ call.a = {<<CR>>, <<CR, LF>>}
    /\ call.b = {<<CR>>, <<CR, CR>>, <<LF>>}
    /\ call.c = {<<LF>>, <<LF, LF>>}
    /\ call.a_b = {<<CR>>, <<CR, LF>>, <<CR, CR>>, <<LF>>}
    /\ call.a_bc = {<<CR>>, <<CR, LF>>, <<CR, CR>>, <<LF>>, <<LF, LF>>}

(***************************************************************************)
(* Claims about the parsers.                                               *)
(***************************************************************************)
IsParseIndexFilters == call.op = "parse_index_filters"

\* C27: parse_index_filters returns an error whenever non-whitespace input
\* remains unconsumed after the rule list has been parsed, also when one or
\* more rules were parsed before the unparsed tail ("1, x" is an error, not
\* [Exact(1)]).
C27_TrailingInputIsAnError ==
    (IsParseIndexFilters /\ call.rest # <<>>) => ~call.result.ok

\* C28: for input matching the grammar, rules separated by commas with
\* optional whitespace around them, parse_index_filters returns the rules in
\* input order, "a..b" as Bounded(a, b), "a.." as LowerBounded(a), "..b" as
\* UpperBounded(b) and "a" as Exact(a); "1, 5.." gives [Exact(1),
\* LowerBounded(5)] and the empty input the empty list.
C28_GrammarInputParsesInOrder ==
    /\ (IsParseIndexFilters /\ call.rest = <<>>) => call.result = Ok(call.rules)
    /\ (IsParseIndexFilters /\ call.input = <<"1", ",", " ", "5", ".", ".">>)
           => call.result = Ok(<<[kind |-> "Exact", j |-> 1],
                                 [kind |-> "LowerBounded", lower |-> 5]>>)
    /\ (IsParseIndexFilters /\ call.input = <<>>) => call.result = Ok(<<>>)

\* " 12..5 , ..1 " is Bounded(12, 5) and then UpperBounded(1)
C28_Witness ==
    /\ IsParseIndexFilters
    /\ call.input = <<" ", "1", "2", ".", ".", "5", " ", ",", " ", ".", ".", "1", " ">>
    /\ call.result = Ok(<<[kind |-> "Bounded", lower |-> 12, upper |-> 5],
                          [kind |-> "UpperBounded", upper |-> 1]>>)

IsParseFieldSeparators == call.op = "parse_field_separators"

\* the bytes a separator string stands for
RECURSIVE Decoded(_)
Decoded(str) ==
    IF str = <<>> THEN <<>>
    ELSE IF Len(str) >= 2 /\ str[1] = "\\" /\ str[2] \in {"n", "t", "r", "s"}
    THEN <<CASE str[2] = "n" -> 10 [] str[2] = "t" -> 9
             [] str[2] = "r" -> 13 [] str[2] = "s" -> 32>>
         \o Decoded(SubSeq(str, 3, Len(str)))
    ELSE Utf8(str[1]) \o Decoded(Tail(str))

\* the strings decoded and inserted one after the other into the trie t
RECURSIVE InsertedInto(_, _)
InsertedInto(t, strs) ==
    IF strs = <<>> THEN t
    ELSE InsertedInto(insert(t, Decoded(Head(strs))), Tail(strs))

CloseReasons == {None, Some("Normal"), Some("Away")}

\* ctx.close with a reason of its own
close_normal(reason) == Some(Some("Normal"))

\* ctx.close(reason): the close frame put on ctx
close(reason) == Some(reason)

\* Close(reason)
Close(reason) ==
    /\ ~stopped
    /\ Len(parts) < MaxItems
    /\ close_frame' = close(reason)
    /\ stopped' = TRUE
    /\ system_stopped' = TRUE
    /\ parts' = Append(parts, Item("Close", reason))
    /\ UNCHANGED <<now, last_seen_heartbeat, next_tick, control, npings, starved>>
    /\ UNCHANGED <<trieVars, sessionVars, callVars, otherVars, continuation_frame, assembled>>

\* Err(error): the stream reports a ProtocolError
ProtocolError ==
    /\ ~stopped
    /\ Len(parts) < MaxItems
    /\ close_frame' = close(Some("Error"))
    /\ stopped' = TRUE
    /\ parts' = Append(parts, Item("Err", <<>>))
    /\ UNCHANGED <<now, last_seen_heartbeat, next_tick, system_stopped, control, npings, starved>>
    /\ UNCHANGED <<trieVars, sessionVars, callVars, otherVars, continuation_frame, assembled>>

\* Binary(data), while the actor runs
Receive(bytes) ==
    /\ ~stopped
    /\ BinaryFrame(bytes)

NextStop ==
    \/ Advance
    \/ Tick
    \/ Ping
    \/ Pong
    \/ \E bytes \in WholePayloads : Receive(bytes)
    \/ \E reason \in CloseReasons : Close(reason)
    \/ ProtocolError

SpecStop == InitConnection /\ [][NextStop]_vars

\* the last item of the stream was a Close
ClosedByPeer == parts # <<>> /\ parts[Len(parts)].kind = "Close"

FailedByProtocolError == parts # <<>> /\ parts[Len(parts)].kind = "Err"

\* C31: on a channel protocol error the session sends a close frame whose
\* close code is the "Protocol error" code and then stops.
C31_ProtocolErrorCloseCode ==
    FailedByProtocolError => (close_frame = Some(Some("Protocol")) /\ stopped)

(***************************************************************************)
(* Claims about the CSV the driver writes.                                 *)
(***************************************************************************)
EndsWithCRLF(bytes) ==
    /\ Len(bytes) >= 2
    /\ bytes[Len(bytes) - 1] = 13
    /\ bytes[Len(bytes)] = 10

\* the call splits "a\nb\nc" into rows at newlines and into no columns
IsThreeLinesCall ==
    /\ IsDriverCall
    /\ call.data = <<97, 10, 98, 10, 99>>
    /\ call.row_options.separators = Some(NewlineTrie)
    /\ call.row_options.index_filters = None
    /\ call.row_options.regex_filter = None
    /\ call.column_options.separators = None
    /\ call.column_options.index_filters = None
    /\ call.column_options.regex_filter = None

\* C32: every record of the emitted CSV, the last one included, is terminated
\* by CR LF and there is no header row: "a\nb\nc" with the newline as row
\* separator and no column separators gives exactly a CR LF b CR LF c CR LF.
C32_RecordsEndWithCRLF ==
    /\ (IsDriverCall /\ call.result.value # <<>>) => EndsWithCRLF(call.result.value)
    /\ (IsThreeLinesCall /\ call.op = "transform_output")
           => call.result.value = <<97, 13, 10, 98, 13, 10, 99, 13, 10>>

(***************************************************************************)
(* Claims about the iterations of the literal splitter.                    *)
(***************************************************************************)
\* the locals of split's loop after the first i bytes of the buffer
LoopAfter(i) ==
    split_loop(trie, SubSeq(data, 1, i), 1,
               [result |-> <<>>, current_line |-> <<>>, current_separator |-> <<>>])

\* the outcome of membership in the iteration on byte i
OutcomeAt(i) ==
    membership(trie, Append(LoopAfter(i - 1).current_separator, data[i]))

\* C33: in the literal splitter an Included outcome never emits a segment and
\* never changes the current segment: a segment is emitted only on
\* IncludedAndTerminal with a non-empty current segment, or at end of input.
C33_IncludedNeverEmits ==
    tpc = "split" =>
        \A i \in 1..Len(data) :
            /\ OutcomeAt(i) = "Included" =>
                   /\ LoopAfter(i).result = LoopAfter(i - 1).result
                   /\ LoopAfter(i).current_line = LoopAfter(i - 1).current_line
            /\ LoopAfter(i).result # LoopAfter(i - 1).result =>
                   /\ OutcomeAt(i) = "IncludedAndTerminal"
                   /\ LoopAfter(i - 1).current_line # <<>>

(***************************************************************************)
(* Claims about the continuation buffer between two logical messages.      *)
(***************************************************************************)
\* no First or Continue part came since the last Last part: the session is
\* between two logical messages
BetweenMessages ==
    /\ LastItems # {}
    /\ \A k \in 1..Len(parts) :
           parts[k].kind \in {"First", "Continue"} => \E j \in LastItems : k < j

\* C34: after a fragmented message was assembled and dispatched on its Last
\* part the continuation buffer is absent: between two logical messages the
\* session holds no bytes of an already dispatched message.
C34_BufferEmptyAfterDispatch ==
    BetweenMessages => continuation_frame = None

(***************************************************************************)
(* Claims about the index filters a session holds.                         *)
(***************************************************************************)
\* an Option<Vec<IndexFilter>> that is None or holds at least one rule
AbsentOrNonEmpty(filters) == filters = None \/ filters[1] # <<>>

\* C35: in every reachable session state index_filters of each dimension is
\* either absent or a non-empty list of rules, whatever Initialize and
\* SetIndexFilters requests were received (payloads that are empty or hold
\* only whitespace included).
C35_IndexFiltersAbsentOrNonEmpty ==
    /\ AbsentOrNonEmpty(row_options.index_filters)
    /\ AbsentOrNonEmpty(column_options.index_filters)

(***************************************************************************)
(* Claims about the segments of the one-dimensional pipeline.              *)
(***************************************************************************)
\* C36: every segment returned by the 1-D pipeline (literal split, then regex
\* split, then filter) is a non-empty byte sequence, for every buffer (the
\* empty one included) and every option set (no literal separators, and a
\* regex separator matching at the start or end of a segment, included).
C36_PipelineSegmentsNonEmpty ==
    call.op = "split_into_records" =>
        \A k \in 1..Len(call.result) : call.result[k] # <<>>

(***************************************************************************)
(* The watchdog against a peer that sends requests, whole or in parts,     *)
(* and may send no heartbeat: every arm of StreamHandler::handle that      *)
(* takes a message, and the interval.                                      *)
(***************************************************************************)
\* a whole request, and the two halves a peer cuts it in
ValidRequest == <<TagSetRowIndexFilters, EmptyBody>>

\* Binary(data) handled as a heartbeat is
Request_as_heartbeat(bytes) ==
    /\ ~stopped
    /\ Len(parts) < MaxItems
    /\ Dispatch(bytes)
    /\ parts' = Append(parts, Item("Binary", bytes))
    /\ last_seen_heartbeat' = now
    /\ UNCHANGED <<now, next_tick, stopped, system_stopped, control, npings, starved,
                   close_frame>>
    /\ UNCHANGED <<trieVars, callVars, otherVars, continuation_frame, assembled>>

\* Text(text) and Binary(data), while the actor runs
Request(bytes) ==
    /\ ~stopped
    /\ BinaryFrame(bytes)

\* Continuation(item), while the actor runs
Part(kind, bytes) ==
    /\ ~stopped
    /\ IF kind = "First" THEN FirstPart(bytes)
       ELSE IF kind = "Continue" THEN ContinuePart(bytes)
       ELSE LastPart(bytes)

NextWatchdog ==
    \/ Advance
    \/ Tick
    \/ Ping
    \/ Pong
    \/ Request(ValidRequest)
    \/ Part("First", <<TagSetRowIndexFilters>>)
    \/ \E kind \in {"Continue", "Last"} : Part(kind, <<EmptyBody>>)

SpecWatchdog == InitConnection /\ [][NextWatchdog]_vars

\* a Binary, Text or Continuation message is handled
IsMessage == parts' # parts

\* C37: only Ping and Pong refresh the heartbeat timestamp: Binary, Text and
\* Continuation messages leave last_seen_heartbeat unchanged, so a peer that
\* keeps sending valid requests but no ping or pong for longer than
\* CLIENT_TIMEOUT is stopped by the watchdog at the next tick, and on that tick
\* no ping is sent.
C37_RequestsAreNoHeartbeat ==
    /\ [][IsMessage => last_seen_heartbeat' = last_seen_heartbeat]_vars
    /\ [][(IsTick /\ now - last_seen_heartbeat > CLIENT_TIMEOUT)
              => (stopped' /\ system_stopped' /\ npings' = npings)]_vars
    /\ [](~stopped => now - last_seen_heartbeat <= CLIENT_TIMEOUT + HEARTBEAT_INTERVAL)

\* no heartbeat ever came; the peer sent a request in two parts and two whole
\* ones, the ticks from 100 ms to 500 ms sent a ping each and the tick at
\* 600 ms stopped the session
C37_Witness ==
    /\ stopped
    /\ system_stopped
    /\ last_seen_heartbeat = 0
    /\ now = CLIENT_TIMEOUT + HEARTBEAT_INTERVAL
    /\ npings = 5
    /\ Len(parts) = MaxItems
    /\ parts[1].kind = "First"
    /\ parts[2].kind = "Last"
    /\ parts[MaxItems].kind = "Binary"
    /\ nrequests = 3
    /\ nresponses = 3

(***************************************************************************)
(* Claims about whole messages that arrive inside a fragmented one.        *)
(***************************************************************************)
\* the bytes of the parts among the items f..k, in arrival order
RECURSIVE FragmentData(_, _)
FragmentData(f, k) ==
    IF f > k THEN <<>>
    ELSE (IF parts[f].kind = "Binary" THEN <<>> ELSE parts[f].data)
         \o FragmentData(f + 1, k)

\* the items f..k are a fragmented message with whole messages inside it
IsInterleaved(f, k) ==
    /\ f < k
    /\ parts[f].kind = "First"
    /\ parts[k].kind = "Last"
    /\ \A m \in (f + 1)..(k - 1) : parts[m].kind \in {"Continue", "Binary"}
    /\ \E m \in (f + 1)..(k - 1) : parts[m].kind = "Binary"

\* a step that handles a whole message, a step that handles a Last part
IsWholeStep == parts' # parts /\ parts'[Len(parts')].kind = "Binary"

IsLastStep == parts' # parts /\ parts'[Len(parts')].kind = "Last"

\* C38: a whole Binary or Text message that arrives between the First and the
\* Last part of a fragmented message is dispatched at once as its own request
\* and leaves the continuation buffer unchanged; the fragmented message is
\* dispatched later, on its Last part, with exactly its own parts.
C38_WholeMessageInsideFragments ==
    /\ [][IsWholeStep =>
              /\ continuation_frame' = continuation_frame
              /\ assembled' = assembled
              /\ nrequests' = nrequests + 1
              /\ request' = parse_from_bytes(parts'[Len(parts')].data)]_vars
    /\ [][IsLastStep =>
              /\ nrequests' = nrequests + 1
              /\ request' = parse_from_bytes(assembled'[Len(assembled')])]_vars
    /\ [](\A k \in LastItems : \A f \in 1..k :
              IsInterleaved(f, k) => assembled[Rank(k)] = FragmentData(f, k))

\* the first half of a request, a whole request, the second half
C38_Witness ==
    /\ Len(parts) = 3
    /\ IsInterleaved(1, 3)
    /\ parts[2].data = <<TagSetRowIndexFilters, EmptyBody>>
    /\ assembled = << <<TagSetRowIndexFilters, EmptyBody>> >>
    /\ nrequests = 2
    /\ nresponses = 2

(***************************************************************************)
(* The command-running session (server/src/websocket_connection.rs): the   *)
(* RunCommand, CancelCommand and SetRowIndexFilters arms of handle_message *)
(* and the interval that calls check_status.  A stream of the process is   *)
(* modelled by the number of bytes the process writes to it, and a         *)
(* CompletedCommand response by the numbers of bytes it was made from.     *)
(* The process writes what it has to write and exits; its pipes hold what  *)
(* it writes.  Reads and waits on the process succeed.                     *)
(***************************************************************************)
BUFFER_SIZE == 5 * 1024

\* what the process writes to a stream
StreamSizes == {0, 1, BUFFER_SIZE - 1, BUFFER_SIZE, BUFFER_SIZE + 1}

\* what one reader.read(&mut buffer) can return on a stream the process writes
\* written bytes to: 0 at the end of an empty stream, and otherwise what was
\* there when the read was made, the size of the buffer at most
BytesRead == {0, 1, BUFFER_SIZE - 1, BUFFER_SIZE}

ReadSizes(written) ==
    IF written = 0 THEN {0}
    ELSE {n \in BytesRead \ {0} : n <= written}

\* read_and_extend, on the length of result and the bytes_read of its read
read_and_extend(result, bytes_read) ==
    [result |-> result + bytes_read, finished |-> bytes_read < BUFFER_SIZE]

\* the stream of a handle that was taken before is not read
taken == [result |-> 0, finished |-> FALSE]

\* Command::new("sh") .. .spawn()
spawn(stdout, stderr) ==
    [exited |-> FALSE, stdout_handle |-> TRUE, stderr_handle |-> TRUE,
     stdout |-> stdout, stderr |-> stderr]

UnexpectedErrorResponse == [inner |-> "unexpected_error"]

CompletedCommandResponse(stdout, stderr) ==
    [inner |-> "completed_command", stdout |-> stdout, stderr |-> stderr]

\* what the actions of this session leave alone
commandFrame ==
    <<trieVars, callVars, clockVars, frameVars, twin,
      stdin, outbox, nresponses, nerrors, request, before>>

\* WebsocketConnection::new of the server crate
InitCommand ==
    /\ TrieUnused
    /\ call = [op |-> "none"]
    /\ stdin = <<>>
    /\ column_options = server_default
    /\ row_options = server_default
    /\ outbox = <<>>
    /\ nrequests = 0
    /\ nresponses = 0
    /\ nerrors = 0
    /\ request = <<>>
    /\ before = <<>>
    /\ now = 0
    /\ last_seen_heartbeat = 0
    /\ next_tick = 0
    /\ continuation_frame = None
    /\ stopped = FALSE
    /\ system_stopped = FALSE
    /\ control = "none"
    /\ npings = 0
    /\ parts = <<>>
    /\ assembled = <<>>
    /\ starved = FALSE
    /\ close_frame = None
    /\ twin = None
    /\ command_status = [kind |-> "Idle"]
    /\ process = <<>>
    /\ should_resend_csv = FALSE
    /\ responses = <<>>

\* handle_message on run_command: self.run(run_command)
RunCommand(stdout, stderr, spawned) ==
    /\ nrequests < MaxRequests
    /\ nrequests' = nrequests + 1
    /\ IF spawned
       THEN /\ command_status' = [kind |-> "Running", stdout |-> 0, stderr |-> 0]
            /\ process' = spawn(stdout, stderr)
            /\ UNCHANGED responses
       ELSE /\ command_status' = [kind |-> "Failed"]
            /\ responses' = Append(responses, UnexpectedErrorResponse)
            /\ UNCHANGED process
    /\ UNCHANGED <<should_resend_csv, column_options, row_options, commandFrame>>

\* handle_message on cancel_command: self.cancel(), by what kill() returns
CancelCommand(killed) ==
    /\ nrequests < MaxRequests
    /\ nrequests' = nrequests + 1
    /\ killed = "InvalidInput" => (process # <<>> /\ process.exited)
    /\ IF command_status.kind # "Running" \/ killed = "InvalidInput"
       THEN UNCHANGED <<command_status, process, responses>>
       ELSE IF killed = "Ok"
       THEN /\ command_status' = [kind |-> "Canceling"]
            /\ process' = [process EXCEPT !.exited = TRUE]
            /\ UNCHANGED responses
       ELSE /\ command_status' = [kind |-> "CancellationFailed"]
            /\ responses' = Append(responses, UnexpectedErrorResponse)
            /\ UNCHANGED process
    /\ UNCHANGED <<should_resend_csv, column_options, row_options, commandFrame>>

\* set_row_index_filters of the server crate, on the options
server_set_row_index_filters(options, r) ==
    IF r.ok THEN [options EXCEPT !.index_filters = Some(r.value)]
    ELSE [options EXCEPT !.index_filters = None]

\* handle_message on set_row_index_filters
SetRowIndexFilters(filters) ==
    /\ nrequests < MaxRequests
    /\ nrequests' = nrequests + 1
    /\ should_resend_csv' = TRUE
    /\ row_options' = server_set_row_index_filters(row_options,
                                                   parse_index_filters(filters))
    /\ responses' = IF parse_index_filters(filters).ok THEN responses
                    ELSE Append(responses, UnexpectedErrorResponse)
    /\ UNCHANGED <<command_status, process, column_options, commandFrame>>

\* on_running after its two reads: wait(), and Finished and send_csvs when
\* both streams were read to their end
on_running(err, out) ==
    /\ process' = [process EXCEPT !.stderr_handle = FALSE, !.stdout_handle = FALSE]
    /\ IF err.finished /\ out.finished
       THEN /\ command_status' = [kind |-> "Finished", stdout |-> out.result,
                                  stderr |-> err.result]
            /\ responses' = Append(responses,
                                   CompletedCommandResponse(out.result, err.result))
            /\ should_resend_csv' = FALSE
       ELSE /\ command_status' = [command_status EXCEPT !.stdout = out.result,
                                                        !.stderr = err.result]
            /\ UNCHANGED <<responses, should_resend_csv>>

\* the closure of run_interval(250 ms): connection.check_status(ctx), by what
\* the reads of on_running return; wait() returns once the process has exited
CheckStatus(err_read, out_read) ==
    /\ IF command_status.kind = "Canceling"
       THEN /\ command_status' = [kind |-> "Canceled"]
            /\ UNCHANGED <<process, responses, should_resend_csv>>
       ELSE IF command_status.kind = "Running"
       THEN /\ process.exited
            /\ err_read \in ReadSizes(process.stderr)
            /\ out_read \in ReadSizes(process.stdout)
            /\ on_running(
                   IF process.stderr_handle
                   THEN read_and_extend(command_status.stderr, err_read)
                   ELSE [taken EXCEPT !.result = command_status.stderr],
                   IF process.stdout_handle
                   THEN read_and_extend(command_status.stdout, out_read)
                   ELSE [taken EXCEPT !.result = command_status.stdout])
       ELSE IF command_status.kind = "Finished" /\ should_resend_csv
       THEN /\ responses' = Append(responses,
                                   CompletedCommandResponse(command_status.stdout,
                                                            command_status.stderr))
            /\ should_resend_csv' = FALSE
            /\ UNCHANGED <<command_status, process>>
       ELSE UNCHANGED <<command_status, process, responses, should_resend_csv>>
    /\ UNCHANGED <<nrequests, column_options, row_options, commandFrame>>

\* the interval fires
Check == \E err_read \in BytesRead, out_read \in BytesRead :
             CheckStatus(err_read, out_read)

\* the process of the command exits
Exit ==
    /\ process # <<>>
    /\ ~process.exited
    /\ process' = [process EXCEPT !.exited = TRUE]
    /\ UNCHANGED <<command_status, responses, should_resend_csv, nrequests,
                   column_options, row_options, commandFrame>>

NextCommand ==
    \/ \E stdout \in StreamSizes, stderr \in StreamSizes, spawned \in BOOLEAN :
           RunCommand(stdout, stderr, spawned)
    \/ \E killed \in {"Ok", "InvalidInput", "Err"} : CancelCommand(killed)
    \/ \E filters \in IndexFilterStrings : SetRowIndexFilters(filters)
    \/ Check
    \/ Exit

\* the interval keeps firing and a process that was spawned exits
SpecCommand ==
    InitCommand /\ [][NextCommand]_vars /\ WF_vars(Check) /\ WF_vars(Exit)

\* C39: in the command-running session every command that was spawned and
\* whose process exits eventually leaves the Running status under fair
\* scheduling of the status check, whatever the process wrote to stdout and
\* stderr (5120 bytes or more on either stream included).
C39_RunningCommandCompletes ==
    (command_status.kind = "Running") ~> (command_status.kind # "Running")

(***************************************************************************)
(* Claims about the chunks of the server-sent-event encoder.               *)
(***************************************************************************)
\* C40: for every encoded string the number of chunks chunked returns equals
\* the total declared in the chunk headers (the length divided by
\* MAX_CHUNK_SIZE, rounded up), the chunks carry the indices 0 .. total-1 in
\* order, and no chunk carries more than MAX_CHUNK_SIZE payload characters.
C40_ChunksMatchTotal ==
    call.op = "chunked" =>
        /\ Len(call.result) = total_chunks(call.encoded)
        /\ \A k \in 1..Len(call.result) :
               /\ call.result[k].total = total_chunks(call.encoded)
               /\ call.result[k].index = k - 1
               /\ call.result[k].payload <= MAX_CHUNK_SIZE

====
